---- MODULE Spec2Model ----
(***************************************************************************)
(* A model of tracopt/versioncontrol/git/PyGIT.py: the revision cache and  *)
(* its builder, the id-shortening and history queries of Storage, the      *)
(* refresh protocol of Storage.rev_cache / sync under the revision-cache   *)
(* lock, and the cat-file batch pipe of Storage.cat_file.                  *)
(*                                                                         *)
(* Representation.  A revision is a sequence of hexadecimal digits, each a *)
(* number 0..15 (NonHex stands for a character outside [0-9A-Fa-f]).  A    *)
(* reference name is the sequence of its path components, so               *)
(* refs/heads/master is <<"refs","heads","master">> and the suffix "^{}"   *)
(* of a dereferenced tag is a last component "^{}".  Python's None is the  *)
(* empty sequence where a revision is expected.  The outcome of a call is  *)
(* a record: Val(x) for a returned value, NoneR for a returned None,       *)
(* Raise(e) for an exception e leaving the call.                           *)
(***************************************************************************)
EXTENDS Integers, Sequences, FiniteSets, TLC

VARIABLES
    git,                 \* the repository on disk, as the external tool reports it
    rev_cache,           \* Storage.__rev_cache: the facade's current snapshot
    rev_cache_refresh,   \* Storage.__rev_cache_refresh
    rev_cache_lock,      \* Storage.__rev_cache_lock: 0 when free, else the holding thread
    dict_rev_cache,      \* StorageFactory.__dict_rev_cache: repo path -> snapshot
    dict_lock,           \* StorageFactory.__dict_lock: 0 when free, else the holder
    dict_weak,           \* StorageFactory.__dict: repo path -> facade, held weakly
    dict_nonweak,        \* StorageFactory.__dict_nonweak: repo path -> pinned facade
    storages,            \* the Storage objects constructed so far
    held,                \* per caller, the facade it holds a reference to (0: none)
    fs,                  \* the file system: the paths that exist, the readable files
    pc,                  \* each thread's position in the operation it runs
    loc,                 \* each thread's local variables
    serial,              \* number of RevCache objects constructed so far
    calls,               \* a summary of the calls that have left their lock
    seen,                \* per thread, the last snapshot a rev_cache read handed it
    cat_file_pipe,       \* Storage.__cat_file_pipe: 0 for None, else the subprocess
    cat_file_pipe_lock,  \* Storage.__cat_file_pipe_lock: 0 when free, else the holder
    procs,               \* the cat-file --batch subprocesses spawned so far
    commit_msg_cache,    \* Storage.__commit_msg_cache, a SizedDict
    commit_msg_lock,     \* Storage.__commit_msg_lock: 0 when free, else the holder
    heap,                \* the list objects parse_commit created, by identity
    q                    \* the last query and its outcome

----------------------------------------------------------------------------
(* Bounds of the model *)

\* the longest ancestry listing a repository of the model holds
MaxRevs == 3
\* the source switches the short-id index from a mapping to an array above
\* 5000 buckets (PyGIT.py:575); the model scales that threshold down so that
\* both representations occur within MaxRevs revisions
SrevArrayAbove == 1
\* the source bounds the commit message cache at 200 entries (PyGIT.py:403);
\* the model scales that capacity down so that eviction occurs
MsgCacheSize == 2
\* the largest capacity a SizedDict under test is constructed with
MaxSize == 2
\* the longest header block of a raw commit
MaxHeaderLines == 4
(* Program constants *)

\* Storage.__SREV_MIN, the minimum short-rev length
SREV_MIN == 4

\* the length of a full sha, as in xrange(min_len+1, 40) and len(srev) == 40
ShaLen == 40

\* GitCore.is_sha accepts 4 <= len(sha) <= 40
ShaMinLen == 4

----------------------------------------------------------------------------
(* Values *)

NoRev == <<>>

Val(x) == [tag |-> "val", val |-> x, exc |-> ""]

NoneR == [tag |-> "none", val |-> <<>>, exc |-> ""]

Raise(e) == [tag |-> "raise", val |-> <<>>, exc |-> e]

Min(a, b) == IF a < b THEN a ELSE b

\* s[:n] of Python, for n >= 0
Take(s, n) == SubSeq(s, 1, Min(n, Len(s)))

\* s.startswith(p)
StartsWith(s, p) == Len(p) <= Len(s) /\ SubSeq(s, 1, Len(p)) = p

Range(s) == {s[i] : i \in DOMAIN s}

NonHex == 16

\* a sha whose first four digits are 0 0 0 b and that carries digit d at
\* position p, zeros elsewhere
Sha(b, p, d) == [i \in 1..ShaLen |-> IF i = 4 THEN b ELSE IF i = p THEN d ELSE 0]

\* The revisions the repositories of the model are made of: three that share
\* a 4-digit bucket (two of them differ only in the last digit) and one
\* alone in its bucket.
Universe == {Sha(1, 5, 0), Sha(1, 5, 1), Sha(1, ShaLen, 1), Sha(2, 5, 0)}

\* a sha that is in no repository of the model, in a bucket above all others
AbsentSha == Sha(3, 5, 0)

----------------------------------------------------------------------------
(* GitCore.is_sha and Storage.__rev_key *)

is_sha(sha) ==
    /\ ShaMinLen <= Len(sha)
    /\ Len(sha) <= ShaLen
    /\ \A i \in DOMAIN sha : sha[i] \in 0..15

\* int(rev[:4], 16); the caller guarantees len(rev) >= 4 and hex digits
rev_key(rev) == ((rev[1] * 16 + rev[2]) * 16 + rev[3]) * 16 + rev[4]

----------------------------------------------------------------------------
(* Storage.RevCache *)

RefsHeads == <<"refs", "heads">>

RefsTags == <<"refs", "tags">>

HEAD == <<"HEAD">>

IsBranchRef(refname) == Len(refname) > 2 /\ SubSeq(refname, 1, 2) = RefsHeads

EmptyDict == <<>>

\* a file system with nothing in it
NoFiles == [exists |-> {}, readable |-> {}]

\* the empty short-id index is the empty mapping
EmptySrev == [kind |-> "dict", map |-> EmptyDict, arr |-> <<>>]

\* truthiness of an srev_dict: a non-empty dict or a non-empty list
SrevTruthy(sd) == IF sd.kind = "dict" THEN DOMAIN sd.map # {} ELSE Len(sd.arr) > 0

\* a constructor without the validation
RevCacheInit_unchecked(youngest_rev, oldest_rev, rev_dict, refs_dict, srev_dict) ==
    [ok |-> TRUE, exc |-> "",
     cache |-> [youngest_rev |-> youngest_rev, oldest_rev |-> oldest_rev,
                rev_dict |-> rev_dict, refs_dict |-> refs_dict,
                srev_dict |-> srev_dict]]

\* RevCache.__init__: the fields, or ValueError when partially populated
RevCacheInit(youngest_rev, oldest_rev, rev_dict, refs_dict, srev_dict) ==
    IF \/ /\ youngest_rev # NoRev
          /\ oldest_rev # NoRev
          /\ DOMAIN rev_dict # {}
          /\ DOMAIN refs_dict # {}
          /\ SrevTruthy(srev_dict)
       \/ /\ youngest_rev = NoRev
          /\ oldest_rev = NoRev
          /\ DOMAIN rev_dict = {}
          /\ DOMAIN refs_dict = {}
          /\ ~SrevTruthy(srev_dict)
    THEN [ok |-> TRUE, exc |-> "",
          cache |-> [youngest_rev |-> youngest_rev, oldest_rev |-> oldest_rev,
                     rev_dict |-> rev_dict, refs_dict |-> refs_dict,
                     srev_dict |-> srev_dict]]
    ELSE [ok |-> FALSE, exc |-> "ValueError",
          cache |-> [youngest_rev |-> NoRev, oldest_rev |-> NoRev,
                     rev_dict |-> EmptyDict, refs_dict |-> EmptyDict,
                     srev_dict |-> EmptySrev]]

\* RevCache.empty()
RevCacheEmpty == RevCacheInit(NoRev, NoRev, EmptyDict, EmptyDict, EmptySrev).cache

----------------------------------------------------------------------------
(* Storage._get_refs *)

\* the dict a loop "for line in lines: d[key(line)] = line.rev" leaves: the
\* last line of a name wins
LastByName(lines, deref) ==
    LET Name(l) == IF deref THEN SubSeq(l.refname, 1, Len(l.refname) - 1)
                   ELSE l.refname
        Idx == {i \in DOMAIN lines :
                   (lines[i].refname[Len(lines[i].refname)] = "^{}") = deref}
        Last(n) == CHOOSE i \in Idx :
                      /\ Name(lines[i]) = n
                      /\ \A j \in Idx : Name(lines[j]) = n => j <= i
    IN  [n \in {Name(lines[i]) : i \in Idx} |-> lines[Last(n)].rev]

\* d1.update(d2)
DictUpdate(d1, d2) ==
    [k \in DOMAIN d1 \cup DOMAIN d2 |-> IF k \in DOMAIN d2 THEN d2[k] ELSE d1[k]]

\* g.show_ref: the output of show-ref --dereference, a sequence of lines
\* [rev, refname]; g.symbolic_ref: the output of symbolic-ref -q HEAD, a
\* reference name or the empty output
get_refs(g) ==
    LET refs == DictUpdate(LastByName(g.show_ref, FALSE),
                           LastByName(g.show_ref, TRUE))
    IN  IF DOMAIN refs # {} /\ g.symbolic_ref \in DOMAIN refs
        THEN DictUpdate(refs, [k \in {HEAD} |-> g.symbolic_ref])
        ELSE refs

----------------------------------------------------------------------------
(* parse_commit                                                            *)
(*                                                                         *)
(* A raw commit is the sequence of its lines.  A header line is            *)
(* <<key, value>>, what line.split(None, 1) makes of it; a line of one     *)
(* word is <<key>>; a continuation line is <<" ", text>>, its first        *)
(* character and the rest; the empty line is <<>>.  A header value is the  *)
(* sequence of the lines it consists of, so '\n'.join concatenates.        *)

\* multiline of the source: None, or the value under construction
NoMultiline == <<>>

\* key != multiline_key
KeyChanged(key, multiline_key, line) == key # multiline_key

\* props.setdefault(key, []).append(value)
PropsAppend(props, key, value) ==
    [k \in DOMAIN props \cup {key} |->
        IF k = key THEN (IF key \in DOMAIN props THEN props[key] ELSE <<>>)
                        \o <<value>>
        ELSE props[k]]

\* props[key][-1] = value
PropsSetLast(props, key, value) ==
    [props EXCEPT ![key] = [@ EXCEPT ![Len(@)] = value]]

\* one iteration of "while line:"
ParseLine(st) ==
    LET line == st.line
        cont == line[1] = " "
        \* the body of the if / else
        st1 == IF cont
               THEN IF st.multiline = NoMultiline
                    THEN IF st.key = ""
                         THEN [st EXCEPT !.exc = "UnboundLocalError"]
                         ELSE [st EXCEPT !.multiline_key = st.key,
                                         !.multiline =
                                             st.props[st.key][Len(st.props[st.key])]
                                             \o <<line[2]>>]
                    ELSE [st EXCEPT !.multiline = Append(@, line[2])]
               ELSE IF Len(line) # 2
                    THEN [st EXCEPT !.exc = "ValueError"]
                    ELSE [st EXCEPT !.key = line[1],
                                    !.props = PropsAppend(@, line[1], <<line[2]>>)]
        \* line = lines.pop(0)
        st2 == IF st1.exc # "" THEN st1
               ELSE IF st1.lines = <<>> THEN [st1 EXCEPT !.exc = "IndexError"]
               ELSE [st1 EXCEPT !.line = Head(st1.lines), !.lines = Tail(@)]
    IN  IF st2.exc # "" THEN st2
        ELSE IF st2.multiline # NoMultiline
                /\ (st2.line = <<>>
                    \/ KeyChanged(st2.key, st2.multiline_key, st2.line))
        THEN [st2 EXCEPT !.props = PropsSetLast(@, st2.multiline_key, st2.multiline),
                         !.multiline = NoMultiline]
        ELSE st2

RECURSIVE ParseLoop(_)
ParseLoop(st) ==
    IF st.exc # "" \/ st.line = <<>> THEN st ELSE ParseLoop(ParseLine(st))

\* parse_commit(raw): the message, as its lines, and the properties
parse_commit(raw) ==
    IF raw = <<>> THEN Raise("GitErrorSha")
    ELSE LET st == ParseLoop([line |-> Head(raw), lines |-> Tail(raw),
                              props |-> EmptyDict, multiline |-> NoMultiline,
                              multiline_key |-> "", key |-> "", exc |-> ""])
         IN  IF st.exc # "" THEN Raise(st.exc)
             ELSE Val([message |-> st.lines, props |-> st.props])

----------------------------------------------------------------------------
(* SizedDict: a dict with a FIFO of its keys, key_fifo[1] the oldest *)

SizedDictInit(max_size) ==
    [max_size |-> max_size, map |-> EmptyDict, key_fifo |-> <<>>]

\* a dict that tolerates one key too many
OverFull_lax(n, max_size) == n > max_size + 1

\* len(self.__key_fifo) > self.__max_size
OverFull(n, max_size) == n > max_size

\* "while len(self.__key_fifo) > self.__max_size:
\*      self.__delitem__(self.__key_fifo.popleft())"
RECURSIVE Evict(_)
Evict(d) ==
    IF OverFull(Len(d.key_fifo), d.max_size)
    THEN Evict([d EXCEPT !.map = [k \in DOMAIN d.map \ {Head(d.key_fifo)} |->
                                     d.map[k]],
                         !.key_fifo = Tail(@)])
    ELSE d

\* a FIFO that moves a key set again to its young end
FifoAfterSet_promoting(key_fifo, name, present) ==
    Append(SelectSeq(key_fifo, LAMBDA k : k # name), name)

\* "if not self.__contains__(name): self.__key_fifo.append(name)"
FifoAfterSet(key_fifo, name, present) ==
    IF present THEN key_fifo ELSE Append(key_fifo, name)

\* SizedDict.__setitem__(name, value), under the dict's own lock: the dict
\* afterwards, and the AssertionError of a broken invariant
SizedSetItem(d, name, value) ==
    LET d1 == [d EXCEPT !.key_fifo = FifoAfterSet(@, name, name \in DOMAIN d.map),
                        !.map = DictUpdate(@, [k \in {name} |-> value])]
        d2 == Evict(d1)
    IN  IF Cardinality(DOMAIN d.map) # Len(d.key_fifo)
        THEN [exc |-> "AssertionError", d |-> d]
        ELSE IF Cardinality(DOMAIN d2.map) # Len(d2.key_fifo)
        THEN [exc |-> "AssertionError", d |-> d2]
        ELSE [exc |-> "", d |-> d2]

----------------------------------------------------------------------------
(* Storage._build_rev_cache *)

\* the entry new_db.setdefault(parent, (set(), [], 0, set())) creates
Placeholder == [children |-> {}, parents |-> <<>>, ord |-> 0, rheads |-> {}]

\* a parent loop that hands down rev itself only, not the heads rev has
\* from its own children
RECURSIVE UpdateParents_own_head(_, _, _, _, _)
UpdateParents_own_head(st, rev, rheads, parents, j) ==
    IF j > Len(parents) \/ st.exc # "" THEN st
    ELSE LET parent == parents[j]
             e == IF parent \in DOMAIN st.db THEN st.db[parent] ELSE Placeholder
             e2 == [e EXCEPT !.children = @ \cup {rev},
                             !.rheads = @ \cup (rheads \cap {rev})]
         IN  IF e.ord # 0
             THEN [st EXCEPT !.exc = "AttributeError"]
             ELSE UpdateParents_own_head(
                      [st EXCEPT !.db = [r \in DOMAIN st.db \cup {parent} |->
                                            IF r = parent THEN e2 ELSE st.db[r]]],
                      rev, rheads, parents, j + 1)

\* "for parent in parents" of one ancestry line: record rev as a child of
\* each parent and hand rev's reachable heads down to it.  An entry that is
\* already final holds frozensets, which have neither add nor update.
RECURSIVE UpdateParents(_, _, _, _, _)
UpdateParents(st, rev, rheads, parents, j) ==
    IF j > Len(parents) \/ st.exc # "" THEN st
    ELSE LET parent == parents[j]
             e == IF parent \in DOMAIN st.db THEN st.db[parent] ELSE Placeholder
             e2 == [e EXCEPT !.children = @ \cup {rev}, !.rheads = @ \cup rheads]
         IN  IF e.ord # 0
             THEN [st EXCEPT !.exc = "AttributeError"]
             ELSE UpdateParents(
                      [st EXCEPT !.db = [r \in DOMAIN st.db \cup {parent} |->
                                            IF r = parent THEN e2 ELSE st.db[r]]],
                      rev, rheads, parents, j + 1)

\* an iteration that leaves out "new_db[rev] = ..." and so gives entries to
\* parents only
BuildLine_parents_only(st, line, i, head_revs) ==
    UpdateParents(st, line[1], {}, SubSeq(line, 2, Len(line)), 1)

\* one iteration of "for ord_rev, revs in enumerate(rev_list)"; i is the
\* 1-based line number, so the ordinal ord_rev + 1 is i
BuildLine(st, line, i, head_revs) ==
    LET rev == line[1]
        parents == SubSeq(line, 2, Len(line))
        key == rev_key(rev)
        sdb2 == [k \in DOMAIN st.sdb \cup {key} |->
                    IF k = key
                    THEN (IF key \in DOMAIN st.sdb THEN st.sdb[key] ELSE <<>>)
                         \o <<rev>>
                    ELSE st.sdb[k]]
        known == rev \in DOMAIN st.db
        old == IF known THEN st.db[rev] ELSE Placeholder
        rheads == IF rev \in head_revs THEN old.rheads \cup {rev} ELSE old.rheads
        final == [children |-> old.children, parents |-> parents, ord |-> i,
                  rheads |-> rheads]
        db2 == [r \in DOMAIN st.db \cup {rev} |->
                   IF r = rev THEN final ELSE st.db[r]]
    IN  IF known /\ (old.children = {} \/ old.parents # <<>> \/ old.ord # 0)
        THEN [st EXCEPT !.exc = "AssertionError"]
        ELSE UpdateParents([st EXCEPT !.db = db2, !.sdb = sdb2],
                           rev, rheads, parents, 1)

\* a loop that stores enumerate's ord_rev itself
RECURSIVE BuildLines_zero_based(_, _, _, _)
BuildLines_zero_based(st, rev_list, i, head_revs) ==
    IF i > Len(rev_list) \/ st.exc # "" THEN st
    ELSE BuildLines_zero_based(BuildLine(st, rev_list[i], i - 1, head_revs),
                               rev_list, i + 1, head_revs)

RECURSIVE BuildLines(_, _, _, _)
BuildLines(st, rev_list, i, head_revs) ==
    IF i > Len(rev_list) \/ st.exc # "" THEN st
    ELSE BuildLines(BuildLine(st, rev_list[i], i, head_revs),
                    rev_list, i + 1, head_revs)

MaxOf(S) == CHOOSE m \in S : \A x \in S : x <= m

\* "convert sdb either to dict or array depending on size": the array is
\* indexed by the key, so arr[k + 1] here is tmp[k] there
ConvertSdb(sdb) ==
    IF Cardinality(DOMAIN sdb) > SrevArrayAbove
    THEN [kind |-> "list", map |-> EmptyDict,
          arr |-> [k \in 1..(MaxOf(DOMAIN sdb) + 1) |->
                      IF (k - 1) \in DOMAIN sdb THEN sdb[k - 1] ELSE <<>>]]
    ELSE [kind |-> "dict", map |-> sdb, arr |-> <<>>]

\* the outcome of _build_rev_cache(refs) on the ancestry listing rev_list:
\* [ok, exc, cache]
build_rev_cache(refs, rev_list) ==
    LET head_revs == {refs[n] : n \in {m \in DOMAIN refs : IsBranchRef(m)}}
        youngest == IF Len(rev_list) > 0 THEN rev_list[1][1] ELSE NoRev
        oldest == IF Len(rev_list) > 0 THEN rev_list[Len(rev_list)][1] ELSE NoRev
        st == BuildLines([db |-> EmptyDict, sdb |-> EmptyDict, exc |-> ""],
                         rev_list, 1, head_revs)
    IN  IF st.exc # ""
        THEN [ok |-> FALSE, exc |-> st.exc, cache |-> RevCacheEmpty]
        ELSE RevCacheInit(youngest, oldest, st.db, refs, ConvertSdb(st.sdb))

----------------------------------------------------------------------------
(* Storage.shortrev, Storage.fullrev, Storage.history_relative_rev *)

\* srev_dict[key]: a dict raises KeyError for a missing key, a list raises
\* IndexError for an index past its end
SrevLookup(sd, key) ==
    IF sd.kind = "dict"
    THEN (IF key \in DOMAIN sd.map THEN Val(sd.map[key]) ELSE Raise("KeyError"))
    ELSE (IF key < Len(sd.arr) THEN Val(sd.arr[key + 1]) ELSE Raise("IndexError"))

\* the lengths l of "for l in xrange(lo, 40)" at which rev[:l] is shared by
\* no revision of crevs
FreeLens(rev, crevs, lo) ==
    {l \in lo..(ShaLen - 1) : Take(rev, l) \notin {Take(r, l) : r \in crevs}}

\* shortrev that forgets the disambiguation loop
shortrev_floor_only(c, rev, min_len) ==
    IF rev \notin DOMAIN c.rev_dict THEN NoneR
    ELSE Val(Take(rev, IF min_len < SREV_MIN THEN SREV_MIN ELSE min_len))

shortrev(c, rev, min_len) ==
    LET ml == IF min_len < SREV_MIN THEN SREV_MIN ELSE min_len
        bucket == SrevLookup(c.srev_dict, rev_key(rev))
        srevs == Range(bucket.val)
        crevs == srevs \ {rev}
        free == FreeLens(rev, crevs, ml + 1)
    IN  IF rev \notin DOMAIN c.rev_dict THEN NoneR
        ELSE IF bucket.tag = "raise" THEN bucket
        ELSE IF Cardinality(srevs) = 1 THEN Val(Take(rev, ml))
        ELSE IF free # {} THEN Val(Take(rev, CHOOSE l \in free : \A m \in free : l <= m))
        ELSE Val(rev)

\* [s for s in srevs if s.startswith(srev)]
Matching(srevs, srev) == SelectSeq(srevs, LAMBDA s : StartsWith(s, srev))

fullrev(c, srev) ==
    LET bucket == SrevLookup(c.srev_dict, rev_key(srev))
        found == Matching(bucket.val, srev)
    IN  IF Len(srev) = ShaLen /\ srev \in DOMAIN c.rev_dict THEN Val(srev)
        ELSE IF ~is_sha(srev) THEN NoneR
        ELSE IF bucket.tag = "raise"
             THEN (IF bucket.exc = "KeyError" THEN NoneR ELSE bucket)
        ELSE IF Len(found) = 1 THEN Val(found[1])
        ELSE NoneR

\* history_relative_rev whose range check lets ordinal 0 through
history_relative_rev_from0(c, sha, rel_pos) ==
    LET db == c.rev_dict
        lin_rev == db[sha].ord + rel_pos
        at == {k \in DOMAIN db : db[k].ord = lin_rev}
    IN  IF sha \notin DOMAIN db THEN Raise("GitErrorSha")
        ELSE IF rel_pos = 0 THEN Val(sha)
        ELSE IF lin_rev < 0 \/ lin_rev > Cardinality(DOMAIN db) THEN NoneR
        ELSE IF at # {} THEN Val(CHOOSE k \in at : TRUE)
        ELSE Raise("GitError")

history_relative_rev(c, sha, rel_pos) ==
    LET db == c.rev_dict
        lin_rev == db[sha].ord + rel_pos
        at == {k \in DOMAIN db : db[k].ord = lin_rev}
    IN  IF sha \notin DOMAIN db THEN Raise("GitErrorSha")
        ELSE IF rel_pos = 0 THEN Val(sha)
        ELSE IF lin_rev < 1 \/ lin_rev > Cardinality(DOMAIN db) THEN NoneR
        ELSE IF at # {} THEN Val(CHOOSE k \in at : TRUE)
        ELSE Raise("GitError")

hist_next_revision(c, sha) == history_relative_rev(c, sha, -1)

hist_prev_revision(c, sha) == history_relative_rev(c, sha, 1)

----------------------------------------------------------------------------
(* Storage.children, parents, children_recursive, rev_is_anchestor_of      *)

\* the members of the set S in the order a loop over S meets them; a set
\* has no order of its own, order lists the revisions in the order the
\* interpreter happens to iterate them
InOrder(S, order) == SelectSeq(order, LAMBDA r : r \in S)

\* a traversal that forgets what it has seen
Unseen_all(children, seen0) == children

\* rev_dict[p][0] - seen
Unseen(children, seen0) == children \ seen0

\* the while loop of children_recursive: work_list, seen and what has been
\* yielded so far
RECURSIVE ChildrenLoop(_, _, _, _, _)
ChildrenLoop(db, work_list, seen0, yielded, order) ==
    IF work_list = <<>> THEN yielded
    ELSE LET p == Head(work_list)
             c == Unseen(db[p].children, seen0)
         IN  ChildrenLoop(db, Tail(work_list) \o InOrder(c, order), seen0 \cup c,
                          Append(yielded, p), order)

\* list(children_recursive(sha, rev_dict)): rev_dict[sha] raises KeyError
\* for a revision that is no key
children_recursive(db, sha, order) ==
    IF sha \notin DOMAIN db THEN Raise("KeyError")
    ELSE Val(ChildrenLoop(db, InOrder(db[sha].children, order),
                          db[sha].children, <<>>, order))

\* an ancestry test that counts a revision among its own descendants
rev_is_anchestor_of_reflexive(db, rev1, rev2, order) ==
    Val(rev2 \in DOMAIN db /\ (rev2 = rev1 \/
        rev2 \in Range(children_recursive(db, rev1, order).val)))

\* rev2 in rev_dict and rev2 in self.children_recursive(rev1, rev_dict)
rev_is_anchestor_of(db, rev1, rev2, order) ==
    IF rev2 \notin DOMAIN db THEN Val(FALSE)
    ELSE LET c == children_recursive(db, rev1, order)
         IN  IF c.tag = "raise" THEN c ELSE Val(rev2 \in Range(c.val))

----------------------------------------------------------------------------
(* Sorting *)

\* the lexicographic order of sequences of numbers
RECURSIVE SeqLess(_, _)
SeqLess(a, b) ==
    IF a = <<>> THEN b # <<>>
    ELSE IF b = <<>> THEN FALSE
    ELSE IF Head(a) # Head(b) THEN Head(a) < Head(b)
    ELSE SeqLess(Tail(a), Tail(b))

\* sorted(S) for a set of revisions
RECURSIVE SortedRevs(_)
SortedRevs(S) ==
    IF S = {} THEN <<>>
    ELSE LET m == CHOOSE x \in S : \A y \in S \ {x} : SeqLess(x, y)
         IN  <<m>> \o SortedRevs(S \ {m})

Reverse(s) == [i \in 1..Len(s) |-> s[Len(s) + 1 - i]]

----------------------------------------------------------------------------
(* Storage.verifyrev                                                       *)
(*                                                                         *)
(* The argument is a string that the code reads in two ways: as digits,    *)
(* for is_sha and fullrev, and as a name, for the reference table.  It is  *)
(* the record of both readings: hex, its characters as numbers (NonHex for *)
(* a character that is no hexadecimal digit), and name, the string.        *)

\* refs.get(k): NoRev stands for None
RefsGet(refs, k) == IF k \in DOMAIN refs THEN refs[k] ELSE NoRev

\* rv is what rev_parse('--verify', rev) prints, stripped: a sha, or
\* nothing when git resolves nothing
verifyrev(c, rev, rv) ==
    LET full == IF is_sha(rev.hex) THEN fullrev(c, rev.hex) ELSE NoneR
        refs == c.refs_dict
        refname == RefsGet(refs, HEAD)
        head == IF rev.name = "HEAD" /\ refname \in DOMAIN refs
                THEN refs[refname] ELSE NoRev
        branch == IF head # NoRev THEN head
                  ELSE RefsGet(refs, RefsHeads \o <<rev.name>>)
        resolved == IF branch # NoRev THEN branch
                    ELSE RefsGet(refs, RefsTags \o <<rev.name>>)
    IN  IF full.tag # "none" THEN full
        ELSE IF resolved # NoRev THEN Val(resolved)
        ELSE IF rv = NoRev THEN NoneR
        ELSE IF rv \in DOMAIN c.rev_dict THEN Val(rv)
        ELSE NoneR

----------------------------------------------------------------------------
(* RevCache.iter_branches, Storage.get_branch_contains, Storage.children,  *)
(* Storage.parents                                                         *)

\* the branch names of the model in the order of their strings
NameOrder == <<"0002", "0003", "dev", "master">>

NameIndex(name) == CHOOSE i \in DOMAIN NameOrder : NameOrder[i] = name

\* the order of tuples (name, rev)
PairLess(a, b) ==
    IF a[1] # b[1] THEN NameIndex(a[1]) < NameIndex(b[1])
    ELSE SeqLess(a[2], b[2])

\* sorted(S) for a set of tuples (name, rev)
RECURSIVE SortedPairs(_)
SortedPairs(S) ==
    IF S = {} THEN <<>>
    ELSE LET m == CHOOSE x \in S : \A y \in S \ {x} : PairLess(x, y)
         IN  <<m>> \o SortedPairs(S \ {m})

\* what iter_branches yields: (refname[11:], rev, refname == head); the
\* branch names of the model have one component
iter_branches(c) ==
    LET head == RefsGet(c.refs_dict, HEAD)
    IN  {[name |-> refname[3], rev |-> c.refs_dict[refname],
          head |-> refname = head] :
            refname \in {n \in DOMAIN c.refs_dict : IsBranchRef(n)}}

\* a filter that lets every branch through
Contains_all(rev, rheads) == TRUE

\* "if rev in rheads"
Contains(rev, rheads) == rev \in rheads

\* order: the order in which the set rheads is iterated
get_branch_contains(c, sha, resolve, order) ==
    IF sha \notin DOMAIN c.rev_dict THEN <<>>
    ELSE LET rheads == c.rev_dict[sha].rheads
         IN  IF resolve
             THEN SortedPairs({<<b.name, b.rev>> :
                                  b \in {x \in iter_branches(c) :
                                            Contains(x.rev, rheads)}})
             ELSE InOrder(rheads, order)

children(c, sha) ==
    IF sha \notin DOMAIN c.rev_dict THEN <<>>
    ELSE SortedRevs(c.rev_dict[sha].children)

\* parents that sorts what it returns
parents_sorted(c, sha) ==
    IF sha \notin DOMAIN c.rev_dict THEN <<>>
    ELSE SortedRevs(Range(c.rev_dict[sha].parents))

parents(c, sha) ==
    IF sha \notin DOMAIN c.rev_dict THEN <<>>
    ELSE c.rev_dict[sha].parents

----------------------------------------------------------------------------
(* The repositories of the model                                           *)
(*                                                                         *)
(* A repository is what the three listings the cache is built from report: *)
(* show_ref (show-ref --dereference), symbolic_ref (symbolic-ref -q HEAD)  *)
(* and rev_list (rev-list --parents --topo-order --all).  The listings are *)
(* those of a real repository: every revision is listed once, children     *)
(* before parents, every parent named is listed, every listed revision is  *)
(* reachable from a reference and every branch or tag resolves to a listed *)
(* revision.                                                               *)

Master == <<"refs", "heads", "master">>

Dev == <<"refs", "heads", "dev">>

TagV1 == <<"refs", "tags", "v1">>

TagV1Deref == <<"refs", "tags", "v1", "^{}">>

\* the sha of the annotated tag object itself, which is no commit
TagObjSha == Sha(4, 5, 0)

Shapes == {"roots", "chain", "fork", "merge"}

\* the parents of the i-th listed revision of s in each shape: no edges; a
\* chain; every revision a child of the oldest; a merge of the second and
\* third revision on top of a fork
ParentsIn(s, shape, i) ==
    LET n == Len(s)
    IN  CASE shape = "roots" -> <<>>
          [] shape = "chain" -> IF i < n THEN <<s[i + 1]>> ELSE <<>>
          [] shape = "fork"  -> IF i < n THEN <<s[n]>> ELSE <<>>
          [] shape = "merge" -> IF i = 1 /\ n >= 3 THEN <<s[2], s[3]>>
                                ELSE IF i < n THEN <<s[n]>> ELSE <<>>

\* the repository listing the revisions s in the given shape, with master at
\* the youngest revision, dev at the dev-th one (0: no such branch), an
\* annotated tag v1 on the oldest revision when tag, and HEAD on master
\* unless detached
RepoOf(s, shape, dev, tag, detached) ==
    [show_ref |->
         (IF dev > 0 THEN <<[rev |-> s[dev], refname |-> Dev]>> ELSE <<>>)
         \o (IF Len(s) > 0 THEN <<[rev |-> s[1], refname |-> Master]>> ELSE <<>>)
         \o (IF tag /\ Len(s) > 0
             THEN <<[rev |-> TagObjSha, refname |-> TagV1],
                    [rev |-> s[Len(s)], refname |-> TagV1Deref]>>
             ELSE <<>>),
     symbolic_ref |-> IF detached THEN <<>> ELSE Master,
     rev_list |-> [i \in 1..Len(s) |-> <<s[i]>> \o ParentsIn(s, shape, i)]]

\* the revisions reachable from the revisions in S along parent edges
RECURSIVE Reach(_, _, _)
Reach(rev_list, S, k) ==
    IF k = 0 THEN S
    ELSE Reach(rev_list,
               S \cup UNION {Range(SubSeq(rev_list[i], 2, Len(rev_list[i]))) :
                                i \in {j \in DOMAIN rev_list : rev_list[j][1] \in S}},
               k - 1)

\* rev-list --all lists exactly what the references reach
GitConsistent(g) ==
    LET refs == get_refs(g)
        tips == {refs[n] : n \in DOMAIN refs \ {HEAD}}
    IN  Reach(g.rev_list, tips, Len(g.rev_list))
            = {g.rev_list[i][1] : i \in DOMAIN g.rev_list}

InjSeqs(n) == {s \in [1..n -> Universe] : \A i, j \in 1..n : i # j => s[i] # s[j]}

Repos ==
    {g \in UNION {{RepoOf(s, shape, dev, tag, detached) :
                      shape \in Shapes, dev \in 0..Len(s),
                      tag \in BOOLEAN, detached \in BOOLEAN} :
                  s \in UNION {InjSeqs(n) : n \in 0..MaxRevs}} :
        GitConsistent(g)}

----------------------------------------------------------------------------
(* State *)

vars == <<git, rev_cache, rev_cache_refresh, rev_cache_lock, dict_rev_cache,
          dict_lock, dict_weak, dict_nonweak, storages, held, fs, pc, loc, serial, calls, seen, cat_file_pipe,
          cat_file_pipe_lock, procs, commit_msg_cache,
          commit_msg_lock, heap, q>>

regVars == <<dict_weak, dict_nonweak, storages, held, fs>>

cacheVars == <<git, rev_cache, rev_cache_refresh, rev_cache_lock, dict_rev_cache,
               dict_lock, regVars, serial>>

threadVars == <<pc, loc, calls, seen>>

pipeVars == <<cat_file_pipe, cat_file_pipe_lock, procs>>

msgVars == <<commit_msg_cache, commit_msg_lock, heap>>

\* a snapshot is a RevCache object: its fields and, for its identity, the
\* number it was constructed as
Snapshot(n, cache) == [id |-> n, cache |-> cache]

NoQuery == [op |-> "none", rev |-> NoRev, n |-> 0, res |-> NoneR]

----------------------------------------------------------------------------
(* Queries on a built cache                                                *)
(*                                                                         *)
(* The facade has read rev_cache once, so its snapshot is the one built    *)
(* from the repository and the refresh flag is clear; the repository does  *)
(* not change, so each query's self.rev_cache is that snapshot.  A query   *)
(* changes nothing, so a behaviour asks one.                               *)

\* min_len arguments of shortrev
MinLens == {0, SREV_MIN, SREV_MIN + 1, ShaLen - 1, ShaLen}

\* rel_pos arguments of history_relative_rev
Offsets == {-2, -1, 0, 1, 2}

PrefixLens == {SREV_MIN - 1, SREV_MIN, SREV_MIN + 1, ShaLen - 1, ShaLen}

\* srev arguments of fullrev: prefixes of present and absent revisions and a
\* string that is no hexadecimal number
Prefixes ==
    {Take(r, l) : r \in Universe \cup {AbsentSha}, l \in PrefixLens}
        \cup {<<0, 0, 0, 1, NonHex>>}

InitQuery ==
    /\ git \in Repos
    /\ rev_cache = Snapshot(1, build_rev_cache(get_refs(git), git.rev_list).cache)
    /\ rev_cache_refresh = FALSE
    /\ rev_cache_lock = 0
    /\ dict_rev_cache = <<rev_cache>>
    /\ dict_lock = 0
    /\ dict_weak = EmptyDict
    /\ dict_nonweak = EmptyDict
    /\ storages = <<>>
    /\ held = <<>>
    /\ fs = NoFiles
    /\ pc = <<>>
    /\ loc = <<>>
    /\ serial = 1
    /\ calls = <<>>
    /\ seen = <<>>
    /\ cat_file_pipe = 0
    /\ cat_file_pipe_lock = 0
    /\ procs = <<>>
    /\ commit_msg_cache = SizedDictInit(MsgCacheSize)
    /\ commit_msg_lock = 0
    /\ heap = <<>>
    /\ q = NoQuery

ShortRev(rev, min_len) ==
    /\ q.op = "none"
    /\ q' = [op |-> "shortrev", rev |-> rev, n |-> min_len,
             res |-> shortrev(rev_cache.cache, rev, min_len)]
    /\ UNCHANGED <<cacheVars, threadVars, pipeVars, msgVars>>

FullRev(srev) ==
    /\ q.op = "none"
    /\ q' = [op |-> "fullrev", rev |-> srev, n |-> 0,
             res |-> fullrev(rev_cache.cache, srev)]
    /\ UNCHANGED <<cacheVars, threadVars, pipeVars, msgVars>>

HistoryRelativeRev(sha, rel_pos) ==
    /\ q.op = "none"
    /\ q' = [op |-> "history_relative_rev", rev |-> sha, n |-> rel_pos,
             res |-> history_relative_rev(rev_cache.cache, sha, rel_pos)]
    /\ UNCHANGED <<cacheVars, threadVars, pipeVars, msgVars>>

NextQuery ==
    \/ \E rev \in Universe \cup {AbsentSha}, min_len \in MinLens : ShortRev(rev, min_len)
    \/ \E srev \in Prefixes : FullRev(srev)
    \/ \E sha \in Universe \cup {AbsentSha}, rel_pos \in Offsets :
           HistoryRelativeRev(sha, rel_pos)

SpecQuery == InitQuery /\ [][NextQuery]_vars

----------------------------------------------------------------------------
(* Claims about the queries, checked under SpecQuery *)

Cache == rev_cache.cache

Cached == DOMAIN Cache.rev_dict

\* the revisions filed in rev's 4-digit bucket, rev excepted
BucketMates(rev) == {r \in Cached : rev_key(r) = rev_key(rev)} \ {rev}

\* C7: for every revision r of the built cache and every min_len k,
\* fullrev(shortrev(r, k)) is r.
C7_RoundTrip ==
    (q.op = "shortrev" /\ q.rev \in Cached)
        => /\ q.res.tag = "val"
           /\ fullrev(Cache, q.res.val) = Val(q.rev)

\* a revision with bucket mates was shortened to a proper prefix
C7_Witness ==
    /\ q.op = "shortrev"
    /\ q.rev \in Cached
    /\ BucketMates(q.rev) # {}
    /\ q.res.tag = "val"
    /\ Len(q.res.val) < ShaLen

\* the shortest prefix of rev, at least max(min_len, 4) long, that no bucket
\* mate shares; the full rev when only that is unique
ShortestUnique(rev, min_len) ==
    LET ml == IF min_len < SREV_MIN THEN SREV_MIN ELSE min_len
        ok == {l \in ml..ShaLen :
                  Take(rev, l) \notin {Take(r, l) : r \in BucketMates(rev)}}
    IN  Take(rev, CHOOSE l \in ok : \A m \in ok : l <= m)

\* C8: shortrev(rev, min_len) is the shortest prefix of rev, at least
\* max(min_len, 4) long, that no other revision of rev's bucket shares: the
\* floor-length prefix itself whenever that is already unique, the full
\* identifier only when no shorter prefix is unique.
C8_ShortestPrefix ==
    (q.op = "shortrev" /\ q.rev \in Cached /\ q.n <= ShaLen)
        => q.res = Val(ShortestUnique(q.rev, q.n))

\* the cached revisions that have srev as a prefix
WithPrefix(srev) == {r \in Cached : StartsWith(r, srev)}

\* C9: for a short id (4 to 40 hexadecimal digits), fullrev returns the one
\* cached revision that has it as a prefix when exactly one has, and returns
\* None, raising nothing, when several or none have, whether the short-id
\* index is an array or a mapping, and on the empty snapshot.
C9_FullRevTotal ==
    (q.op = "fullrev" /\ is_sha(q.rev))
        => IF Cardinality(WithPrefix(q.rev)) = 1
           THEN q.res = Val(CHOOSE r \in WithPrefix(q.rev) : TRUE)
           ELSE q.res = NoneR

Ord(r) == Cache.rev_dict[r].ord

\* C10: for a cached revision r, history_relative_rev(r, 0) is r; a target
\* ordinal below 1 or above N gives None; a target ordinal in 1..N gives the
\* revision of that ordinal; and hist_next_revision undoes
\* hist_prev_revision wherever that gives a revision.
C10_RelativeHistory ==
    (q.op = "history_relative_rev" /\ q.rev \in Cached)
        => /\ q.n = 0 => q.res = Val(q.rev)
           /\ (Ord(q.rev) + q.n < 1 \/ Ord(q.rev) + q.n > Cardinality(Cached))
                  => q.res = NoneR
           /\ (Ord(q.rev) + q.n \in 1..Cardinality(Cached))
                  => /\ q.res.tag = "val"
                     /\ q.res.val \in Cached
                     /\ Ord(q.res.val) = Ord(q.rev) + q.n
           /\ (q.n = 1 /\ q.res.tag = "val")
                  => hist_next_revision(Cache, q.res.val) = Val(q.rev)

\* hist_prev_revision of a revision that is not the oldest gave a revision
C10_Witness ==
    /\ q.op = "history_relative_rev"
    /\ q.rev \in Cached
    /\ q.n = 1
    /\ q.res.tag = "val"
    /\ q.res.val # q.rev

\* C30: in the snapshot built from the repository's listings every listed
\* revision is a key of rev_dict, and every parent and every child an
\* entry names is a key of rev_dict.
C30_GraphClosed ==
    LET db == rev_cache.cache.rev_dict
    IN  /\ \A i \in DOMAIN git.rev_list : git.rev_list[i][1] \in DOMAIN db
        /\ \A r \in DOMAIN db :
               /\ \A j \in DOMAIN db[r].parents : db[r].parents[j] \in DOMAIN db
               /\ db[r].children \subseteq DOMAIN db

\* the snapshot of a repository with a merge: an entry with two parents
\* and an entry with two children
C30_Witness ==
    LET db == rev_cache.cache.rev_dict
    IN  /\ \E r \in DOMAIN db : Len(db[r].parents) = 2
        /\ \E r \in DOMAIN db : Cardinality(db[r].children) = 2

\* C31: in the snapshot built from the repository's listings the revision
\* on the i-th ancestry line has ordinal i, so the ordinals of rev_dict
\* are exactly 1..N for its N entries, each held by one entry, none 0,
\* youngest_rev has ordinal 1 and oldest_rev ordinal N.
C31_OrdinalsDense ==
    LET db == Cache.rev_dict
        N == Cardinality(DOMAIN db)
    IN  /\ N = Len(git.rev_list)
        /\ \A i \in DOMAIN git.rev_list : db[git.rev_list[i][1]].ord = i
        /\ {db[r].ord : r \in DOMAIN db} = 1..N
        /\ \A r1, r2 \in DOMAIN db : db[r1].ord = db[r2].ord => r1 = r2
        /\ N > 0 => /\ db[Cache.youngest_rev].ord = 1
                    /\ db[Cache.oldest_rev].ord = N

\* a snapshot of as many revisions as the model has, the oldest of them
\* first entered as the parent of another
C31_Witness ==
    /\ Cardinality(Cached) = MaxRevs
    /\ Ord(Cache.oldest_rev) = MaxRevs
    /\ Cache.rev_dict[Cache.oldest_rev].children # {}

\* the branch heads: the values of the refs/heads/ references
BranchHeads ==
    {Cache.refs_dict[n] : n \in {m \in DOMAIN Cache.refs_dict : IsBranchRef(m)}}

\* h and its ancestors in the repository
AncestorsOrSelf(h) == Reach(git.rev_list, {h}, Len(git.rev_list))

\* C32: in the snapshot built from the repository's listings the reachable
\* heads of a revision r are exactly the branch heads h such that r is h
\* or an ancestor of h.
C32_ReachableHeads ==
    \A r \in Cached :
        Cache.rev_dict[r].rheads = {h \in BranchHeads : r \in AncestorsOrSelf(h)}

\* a revision that is no head has a head from a child that is no head
\* either
C32_Witness ==
    \E r \in Cached \ BranchHeads :
        \E c \in Cache.rev_dict[r].children \ BranchHeads :
            /\ Cache.rev_dict[c].rheads # {}
            /\ Cache.rev_dict[r].rheads # {}

----------------------------------------------------------------------------
(* Queries on the revision graph of a built cache                          *)
(*                                                                         *)
(* As above, a Storage whose snapshot is current answers one query.        *)

\* the orders in which a loop can meet the revisions of a snapshot
Orders == UNION {InjSeqs(n) : n \in 0..Cardinality(Universe)}

Revs == Universe \cup {AbsentSha}

ChildrenRecursive(sha, order) ==
    /\ q.op = "none"
    /\ Range(order) = DOMAIN rev_cache.cache.rev_dict
    /\ q' = [op |-> "children_recursive", rev |-> sha, n |-> 0, order |-> order,
             res |-> children_recursive(rev_cache.cache.rev_dict, sha, order)]
    /\ UNCHANGED <<cacheVars, threadVars, pipeVars, msgVars>>

\* the test asks only whether rev2 is among what the traversal yields, so
\* it is run with two opposite orders of iteration
RevIsAnchestorOf(rev1, rev2, ascending) ==
    /\ q.op = "none"
    /\ LET up == SortedRevs(DOMAIN rev_cache.cache.rev_dict)
           order == IF ascending THEN up ELSE Reverse(up)
       IN  q' = [op |-> "rev_is_anchestor_of", rev |-> rev1, rev2 |-> rev2,
                 n |-> 0, order |-> order,
                 res |-> rev_is_anchestor_of(rev_cache.cache.rev_dict, rev1,
                                             rev2, order)]
    /\ UNCHANGED <<cacheVars, threadVars, pipeVars, msgVars>>

NextGraph ==
    \/ \E sha \in Revs, order \in Orders : ChildrenRecursive(sha, order)
    \/ \E rev1 \in Revs, rev2 \in Revs, ascending \in BOOLEAN :
           RevIsAnchestorOf(rev1, rev2, ascending)

SpecGraph == InitQuery /\ [][NextGraph]_vars

----------------------------------------------------------------------------
(* Claims about the graph queries, checked under SpecGraph *)

\* the revisions that name r as a parent
ChildrenOf(r) == {x \in Cached : r \in Range(Cache.rev_dict[x].parents)}

\* the revisions reached from r in at most k steps from parent to child
RECURSIVE Within(_, _)
Within(r, k) ==
    IF k = 0 THEN {r}
    ELSE LET w == Within(r, k - 1)
         IN  w \cup UNION {ChildrenOf(x) : x \in w}

\* the proper descendants of r
Descendants(r) == UNION {ChildrenOf(x) : x \in Within(r, Cardinality(Cached))}

\* the least number of steps from parent to child that lead from r to d
Depth(r, d) == CHOOSE k \in 0..Cardinality(Cached) :
                   d \in Within(r, k) /\ \A j \in 0..(k - 1) : d \notin Within(r, j)

C12_AncestorIffDescendant ==
    q.op = "rev_is_anchestor_of"
        => LET descends == q.rev2 \in Descendants(q.rev)
           IN  /\ (q.res = Val(TRUE)) <=> descends
               /\ q.rev \in Cached => q.res = Val(descends)
               /\ (q.rev \in Cached /\ q.rev2 = q.rev) => q.res = Val(FALSE)

\* rev1 is an ancestor of rev2 without being one of its parents, and rev2
\* is no ancestor of rev1
C12_Witness ==
    /\ q.op = "rev_is_anchestor_of"
    /\ q.res = Val(TRUE)
    /\ q.rev \notin Range(Cache.rev_dict[q.rev2].parents)
    /\ rev_is_anchestor_of(Cache.rev_dict, q.rev2, q.rev, q.order) = Val(FALSE)

----------------------------------------------------------------------------
(* Lookups on a built cache: verifyrev, get_branch_contains, children,     *)
(* parents                                                                 *)
(*                                                                         *)
(* As for the queries above the snapshot is the one built from the         *)
(* repository.  The repositories are those above and the same with one     *)
(* more branch, on the oldest revision, whose name reads as a short id.    *)

\* branch names of four hexadecimal digits
HexNames == {"0002", "0003"}

\* the reading of a name as digits
HexOf(name) ==
    CASE name = "0002" -> <<0, 0, 0, 2>>
      [] name = "0003" -> <<0, 0, 0, 3>>
      [] OTHER -> <<NonHex>>

WithBranch(g, name) ==
    [g EXCEPT !.show_ref =
        <<[rev |-> g.rev_list[Len(g.rev_list)][1],
           refname |-> RefsHeads \o <<name>>]>> \o @]

LookupRepos ==
    Repos \cup {WithBranch(g, name) :
                   g \in {r \in Repos : Len(r.rev_list) > 0}, name \in HexNames}

\* the arguments of verifyrev: names, of references and of none, and ids,
\* short and full, of revisions present and absent, which name no reference
VerifyArgs ==
    {[hex |-> HexOf(name), name |-> name] :
        name \in HexNames \cup {"HEAD", "master", "dev", "v1", "nosuch"}}
    \cup {[hex |-> Take(r, l), name |-> "id"] :
             r \in Universe \cup {AbsentSha}, l \in {SREV_MIN + 1, ShaLen}}

\* what git rev-parse --verify may print: the id of a commit, of an object
\* that is no commit, an id it was given, or nothing
RevParsed == Universe \cup {TagObjSha, AbsentSha, NoRev}

InitLookup ==
    /\ git \in LookupRepos
    /\ rev_cache = Snapshot(1, build_rev_cache(get_refs(git), git.rev_list).cache)
    /\ rev_cache_refresh = FALSE
    /\ rev_cache_lock = 0
    /\ dict_rev_cache = <<rev_cache>>
    /\ dict_lock = 0
    /\ dict_weak = EmptyDict
    /\ dict_nonweak = EmptyDict
    /\ storages = <<>>
    /\ held = <<>>
    /\ fs = NoFiles
    /\ pc = <<>>
    /\ loc = <<>>
    /\ serial = 1
    /\ calls = <<>>
    /\ seen = <<>>
    /\ cat_file_pipe = 0
    /\ cat_file_pipe_lock = 0
    /\ procs = <<>>
    /\ commit_msg_cache = SizedDictInit(MsgCacheSize)
    /\ commit_msg_lock = 0
    /\ heap = <<>>
    /\ q = NoQuery

VerifyRev(rev, rv) ==
    /\ q.op = "none"
    /\ q' = [op |-> "verifyrev", rev |-> rev, rv |-> rv, n |-> 0,
             res |-> verifyrev(rev_cache.cache, rev, rv)]
    /\ UNCHANGED <<cacheVars, threadVars, pipeVars, msgVars>>

GetBranchContains(sha, resolve, ascending) ==
    /\ q.op = "none"
    /\ LET up == SortedRevs(DOMAIN rev_cache.cache.rev_dict)
           order == IF ascending THEN up ELSE Reverse(up)
       IN  q' = [op |-> "get_branch_contains", rev |-> sha,
                 resolve |-> resolve, n |-> 0,
                 res |-> Val(get_branch_contains(rev_cache.cache, sha,
                                                 resolve, order))]
    /\ UNCHANGED <<cacheVars, threadVars, pipeVars, msgVars>>

Children(sha) ==
    /\ q.op = "none"
    /\ q' = [op |-> "children", rev |-> sha, n |-> 0,
             res |-> Val(children(rev_cache.cache, sha))]
    /\ UNCHANGED <<cacheVars, threadVars, pipeVars, msgVars>>

Parents(sha) ==
    /\ q.op = "none"
    /\ q' = [op |-> "parents", rev |-> sha, n |-> 0,
             res |-> Val(parents(rev_cache.cache, sha))]
    /\ UNCHANGED <<cacheVars, threadVars, pipeVars, msgVars>>

NextLookup ==
    \/ \E rev \in VerifyArgs, rv \in RevParsed : VerifyRev(rev, rv)
    \/ \E sha \in Revs, resolve \in BOOLEAN, ascending \in BOOLEAN :
           GetBranchContains(sha, resolve, ascending)
    \/ \E sha \in Revs : Children(sha)
    \/ \E sha \in Revs : Parents(sha)

SpecLookup == InitLookup /\ [][NextLookup]_vars

----------------------------------------------------------------------------
(* Claims about the lookups, checked under SpecLookup *)

\* the first of the resolutions (a), (b), (c) that succeeds for rev, with rv
\* the answer of the external resolver
FirstResolution(rev, rv) ==
    LET refs == Cache.refs_dict
        heads == RefsHeads \o <<rev.name>>
        tags == RefsTags \o <<rev.name>>
    IN  IF is_sha(rev.hex) /\ Cardinality(WithPrefix(rev.hex)) = 1
        THEN Val(CHOOSE r \in WithPrefix(rev.hex) : TRUE)
        ELSE IF rev.name = "HEAD" /\ HEAD \in DOMAIN refs
                /\ RefsGet(refs, HEAD) \in DOMAIN refs
        THEN Val(refs[refs[HEAD]])
        ELSE IF heads \in DOMAIN refs THEN Val(refs[heads])
        ELSE IF tags \in DOMAIN refs THEN Val(refs[tags])
        ELSE IF rv \in Cached THEN Val(rv)
        ELSE NoneR

\* C18: verifyrev(rev) returns the first resolution that succeeds, in the
\* order id lookup, HEAD, branch, tag, external resolver whose answer is in
\* the snapshot, and None when none does.
C18_VerifyRevOrder ==
    q.op = "verifyrev" => q.res = FirstResolution(q.rev, q.rv)

\* the branches whose head revision is in the reachable-head set of r, as
\* tuples (name, rev)
BranchesContaining(r) ==
    {<<refname[3], Cache.refs_dict[refname]>> :
        refname \in {n \in DOMAIN Cache.refs_dict :
                        /\ IsBranchRef(n)
                        /\ Cache.refs_dict[n] \in Cache.rev_dict[r].rheads}}

\* the branch HEAD names
CheckedOut == RefsGet(Cache.refs_dict, HEAD)

\* the call asked for the named branches that contain a cached revision
ResolvedContains ==
    q.op = "get_branch_contains" /\ q.resolve /\ q.rev \in Cached

\* C19 as stated: the branches containing rev, the checked-out one first
\* and the others sorted.
C19_CheckedOutFirst ==
    ResolvedContains
        => /\ Range(q.res.val) = BranchesContaining(q.rev)
           /\ \A i \in DOMAIN q.res.val :
                  (i > 1 /\ CheckedOut # NoRev)
                      => q.res.val[i][1] # CheckedOut[3]
           /\ \A i, j \in DOMAIN q.res.val :
                  (1 < i /\ i < j) => PairLess(q.res.val[i], q.res.val[j])

\* C19: get_branch_contains(rev, resolve=True) returns exactly the branches
\* whose head revision is in rev's reachable-head set, each once, as tuples
\* (name, rev) in ascending order of name and then revision, wherever the
\* checked-out branch falls in that order; for a revision not in the
\* snapshot it returns the empty sequence.
C19_SortedByName ==
    (q.op = "get_branch_contains" /\ q.resolve)
        => IF q.rev \in Cached
           THEN /\ Range(q.res.val) = BranchesContaining(q.rev)
                /\ \A i, j \in DOMAIN q.res.val :
                       i < j => PairLess(q.res.val[i], q.res.val[j])
           ELSE q.res.val = <<>>

\* the revision is on the checked-out branch and on another, which is
\* returned first, and on a third it is not
C19_Witness ==
    /\ ResolvedContains
    /\ Len(q.res.val) >= 2
    /\ CheckedOut # NoRev
    /\ q.res.val[1][1] # CheckedOut[3]
    /\ \E i \in DOMAIN q.res.val : q.res.val[i][1] = CheckedOut[3]
    /\ \E n \in DOMAIN Cache.refs_dict :
           IsBranchRef(n) /\ <<n[3], Cache.refs_dict[n]>> \notin Range(q.res.val)

\* the parents of r in the order in which the ancestry listing names them
ListedParents(r) ==
    LET i == CHOOSE j \in DOMAIN git.rev_list : git.rev_list[j][1] = r
    IN  SubSeq(git.rev_list[i], 2, Len(git.rev_list[i]))

\* s is in strictly ascending order
Ascending(s) == \A i, j \in DOMAIN s : i < j => SeqLess(s[i], s[j])

\* C20 as stated: children and parents are the direct edges, both sorted.
C20_BothSorted ==
    (q.op \in {"children", "parents"} /\ q.rev \in Cached)
        => /\ Ascending(q.res.val)
           /\ Range(q.res.val) = IF q.op = "children" THEN ChildrenOf(q.rev)
                                 ELSE Range(ListedParents(q.rev))

\* C20: children(rev) returns exactly the revisions that name rev as a
\* parent, in ascending order; parents(rev) returns exactly the parents of
\* rev in the order in which the commit names them, sorted or not; both
\* return the empty sequence for a revision not in the snapshot.
C20_ChildrenSortedParentsListed ==
    /\ q.op = "children"
           => IF q.rev \in Cached
              THEN Ascending(q.res.val) /\ Range(q.res.val) = ChildrenOf(q.rev)
              ELSE q.res.val = <<>>
    /\ q.op = "parents"
           => IF q.rev \in Cached
              THEN q.res.val = ListedParents(q.rev)
              ELSE q.res.val = <<>>

\* the parents of a merge, of which the commit names the greater first
C20_Witness ==
    /\ q.op = "parents"
    /\ q.rev \in Cached
    /\ Len(q.res.val) = 2
    /\ SeqLess(q.res.val[2], q.res.val[1])

----------------------------------------------------------------------------
(* The refresh protocol: Storage.rev_cache, sync, invalidate_rev_cache     *)
(*                                                                         *)
(* Threads call into one facade while the repository changes under it.     *)
(* Every external-tool call returns, and the repository is at each moment  *)
(* one of the consistent repositories GitAt(0), GitAt(1), ...              *)

\* number of worker threads
NThreads == 2
\* number of calls a behaviour makes
MaxCalls == 3
\* number of times the repository changes
MaxVer == 2
Threads == 1..NThreads

\* the order in which the revisions are committed
Timeline == <<Sha(2, 5, 0), Sha(1, 5, 0), Sha(1, 5, 1), Sha(1, ShaLen, 1)>>

\* the repository after v commits on master: a chain, youngest first
GitAt(v) == RepoOf([i \in 1..v |-> Timeline[v - i + 1]], "chain", 0, FALSE, FALSE)

GitVer(g) == Len(g.rev_list)

NoSnapshot == Snapshot(0 - 1, RevCacheEmpty)

\* a thread's locals: the operation, the repository version when it took
\* the lock (v0) and when it fetched the references (vrefs), the numbers of
\* reference-listing and ancestry-listing fetches, the fetched references,
\* the snapshot and the registry slot found when taking the lock, the
\* snapshot built, refreshed, and the value returned
LocIdle ==
    [op |-> "", v0 |-> 0, vrefs |-> 0 - 1, nrefs |-> 0, nrev |-> 0,
     refs |-> EmptyDict, before |-> NoSnapshot, slot0 |-> <<>>,
     built |-> NoSnapshot, refreshed |-> FALSE, ret |-> NoSnapshot]

IsQuery(op) == op \in {"rev_cache", "sync"}

\* The summary of the calls that have left the lock, in the order they left
\* it: their number n; of the last one that fetched the references, the
\* version at which it took the lock (checked_v0); whether
\* invalidate_rev_cache ran after it (invalidated); of the last rev_cache or
\* sync, the version at which it took the lock (query_v0); per version of
\* the repository, how many calls rebuilt from references fetched at it
\* (nbuilds), whether a call fetched the references at it (checked) and
\* whether a rev_cache or sync ran wholly at it (queried); the snapshot the
\* last rev_cache read returned (last_ret).
NoCalls ==
    [n |-> 0, checked_v0 |-> 0 - 1, invalidated |-> FALSE, query_v0 |-> 0 - 1,
     nbuilds |-> [v \in 0..MaxVer |-> 0], checked |-> {}, queried |-> {},
     last_ret |-> 0 - 1]

\* calls after the call with locals l has left the lock
Left(l) ==
    [n |-> calls.n + 1,
     checked_v0 |-> IF l.nrefs > 0 THEN l.v0 ELSE calls.checked_v0,
     invalidated |-> IF l.op = "invalidate_rev_cache" THEN TRUE
                     ELSE IF l.nrefs > 0 THEN FALSE ELSE calls.invalidated,
     query_v0 |-> IF IsQuery(l.op) THEN l.v0 ELSE calls.query_v0,
     nbuilds |-> IF l.nrev > 0
                 THEN [calls.nbuilds EXCEPT ![l.vrefs] = @ + l.nrev]
                 ELSE calls.nbuilds,
     checked |-> IF l.nrefs > 0 THEN calls.checked \cup {l.vrefs}
                 ELSE calls.checked,
     queried |-> IF IsQuery(l.op) /\ l.v0 = GitVer(git)
                 THEN calls.queried \cup {l.v0} ELSE calls.queried,
     last_ret |-> IF l.op = "rev_cache" THEN l.ret.id ELSE calls.last_ret]

\* Storage.__init__ with no shared snapshot in the registry
InitCache ==
    /\ git = GitAt(0)
    /\ rev_cache = Snapshot(0, RevCacheEmpty)
    /\ rev_cache_refresh = TRUE
    /\ rev_cache_lock = 0
    /\ dict_rev_cache = <<>>
    /\ dict_lock = 0
    /\ dict_weak = EmptyDict
    /\ dict_nonweak = EmptyDict
    /\ storages = <<>>
    /\ held = <<>>
    /\ fs = NoFiles
    /\ serial = 0
    /\ pc = [t \in Threads |-> "idle"]
    /\ loc = [t \in Threads |-> LocIdle]
    /\ calls = NoCalls
    /\ seen = [t \in Threads |-> 0 - 1]
    /\ cat_file_pipe = 0
    /\ cat_file_pipe_lock = 0
    /\ procs = <<>>
    /\ commit_msg_cache = SizedDictInit(MsgCacheSize)
    /\ commit_msg_lock = 0
    /\ heap = <<>>
    /\ q = NoQuery

\* a commit lands on master
GitChange ==
    /\ GitVer(git) < MaxVer
    /\ git' = GitAt(GitVer(git) + 1)
    /\ UNCHANGED <<rev_cache, rev_cache_refresh, rev_cache_lock, dict_rev_cache,
                   dict_lock, regVars, serial, threadVars, pipeVars, msgVars, q>>

CacheOps == {"rev_cache", "sync", "invalidate_rev_cache"}

\* the calls that hold the lock
InFlight == {t \in Threads : pc[t] \notin {"idle", "return"}}

\* a rev_cache property that does not take the lock
CanEnter_unlocked(t) == TRUE

\* Lock.acquire of "with self.__rev_cache_lock" succeeds
CanEnter(t) == rev_cache_lock = 0

\* a thread calls rev_cache, sync() or invalidate_rev_cache() and gets the
\* lock; a thread that waits for the lock stays idle until it gets it
Begin(t, op) ==
    /\ pc[t] = "idle"
    /\ calls.n + Cardinality(InFlight) < MaxCalls
    /\ CanEnter(t)
    /\ rev_cache_lock' = t
    /\ loc' = [loc EXCEPT ![t] = [LocIdle EXCEPT !.op = op, !.v0 = GitVer(git),
                                                 !.before = rev_cache,
                                                 !.slot0 = dict_rev_cache]]
    /\ pc' = [pc EXCEPT ![t] = IF op = "invalidate_rev_cache"
                               THEN "set_flag" ELSE "refresh"]
    /\ UNCHANGED <<git, rev_cache, rev_cache_refresh, dict_rev_cache, dict_lock, regVars,
                   serial, calls, seen, pipeVars, msgVars, q>>

\* invalidate_rev_cache: set the flag and leave the lock
Invalidate(t) ==
    /\ pc[t] = "set_flag"
    /\ rev_cache_refresh' = TRUE
    /\ rev_cache_lock' = 0
    /\ calls' = Left(loc[t])
    /\ pc' = [pc EXCEPT ![t] = "idle"]
    /\ loc' = [loc EXCEPT ![t] = LocIdle]
    /\ UNCHANGED <<git, rev_cache, dict_rev_cache, dict_lock, regVars, serial, seen,
                   pipeVars, msgVars, q>>

\* a refresh that leaves the flag set
FlagAfterCheck_kept == TRUE

\* self.__rev_cache_refresh = False
FlagAfterCheck == FALSE

\* a comparison of the reference names only
RefsChanged_names(c, refs) == DOMAIN c.refs_dict # DOMAIN refs

\* self.__rev_cache.refs_dict != refs
RefsChanged(c, refs) == c.refs_dict # refs

\* _refresh_rev_cache up to the comparison: when forced or flagged, clear
\* the flag, fetch the reference listing and compare it with the snapshot's
Refresh(t) ==
    /\ pc[t] = "refresh"
    /\ IF loc[t].op = "sync" \/ rev_cache_refresh
       THEN LET refs == get_refs(git)
            IN  /\ rev_cache_refresh' = FlagAfterCheck
                /\ loc' = [loc EXCEPT ![t].refs = refs, ![t].nrefs = @ + 1,
                                      ![t].vrefs = GitVer(git)]
                /\ pc' = [pc EXCEPT ![t] = IF RefsChanged(rev_cache.cache, refs)
                                           THEN "build" ELSE "unlock"]
       ELSE /\ pc' = [pc EXCEPT ![t] = "unlock"]
            /\ UNCHANGED <<rev_cache_refresh, loc>>
    /\ UNCHANGED <<git, rev_cache, rev_cache_lock, dict_rev_cache, dict_lock, regVars,
                   serial, calls, seen, pipeVars, msgVars, q>>

\* rev_cache = self._build_rev_cache(refs): fetch the ancestry listing and
\* build; an exception of the builder leaves the call through the lock
Build(t) ==
    /\ pc[t] = "build"
    /\ LET b == build_rev_cache(loc[t].refs, git.rev_list)
           l == [loc[t] EXCEPT !.nrev = @ + 1]
       IN  IF b.ok
           THEN /\ serial' = serial + 1
                /\ loc' = [loc EXCEPT ![t] = [l EXCEPT !.built =
                                                 Snapshot(serial + 1, b.cache)]]
                /\ pc' = [pc EXCEPT ![t] = "assign"]
                /\ UNCHANGED <<rev_cache_lock, calls>>
           ELSE /\ rev_cache_lock' = 0
                /\ calls' = Left(l)
                /\ loc' = [loc EXCEPT ![t] = LocIdle]
                /\ pc' = [pc EXCEPT ![t] = "idle"]
                /\ UNCHANGED serial
    /\ UNCHANGED <<git, rev_cache, rev_cache_refresh, dict_rev_cache, dict_lock, regVars,
                   seen, pipeVars, msgVars, q>>

\* self.__rev_cache = rev_cache
Assign(t) ==
    /\ pc[t] = "assign"
    /\ rev_cache' = loc[t].built
    /\ pc' = [pc EXCEPT ![t] = "publish"]
    /\ UNCHANGED <<git, rev_cache_refresh, rev_cache_lock, dict_rev_cache,
                   dict_lock, regVars, serial, loc, calls, seen, pipeVars, msgVars, q>>

\* StorageFactory.set_rev_cache(self.repo_path, rev_cache), under the
\* registry lock; refreshed = True
Publish(t) ==
    /\ pc[t] = "publish"
    /\ dict_lock = 0
    /\ dict_rev_cache' = <<loc[t].built>>
    /\ loc' = [loc EXCEPT ![t].refreshed = TRUE]
    /\ pc' = [pc EXCEPT ![t] = "unlock"]
    /\ UNCHANGED <<git, rev_cache, rev_cache_refresh, rev_cache_lock, dict_lock, regVars,
                   serial, calls, seen, pipeVars, msgVars, q>>

\* "return self.__rev_cache" / "return refreshed", then the end of the with
\* block releases the lock; sync's boolean goes to its caller at once
Unlock(t) ==
    /\ pc[t] = "unlock"
    /\ rev_cache_lock' = 0
    /\ calls' = Left([loc[t] EXCEPT !.ret = rev_cache])
    /\ IF loc[t].op = "rev_cache"
       THEN /\ loc' = [loc EXCEPT ![t].ret = rev_cache]
            /\ pc' = [pc EXCEPT ![t] = "return"]
       ELSE /\ loc' = [loc EXCEPT ![t] = LocIdle]
            /\ pc' = [pc EXCEPT ![t] = "idle"]
    /\ UNCHANGED <<git, rev_cache, rev_cache_refresh, dict_rev_cache, dict_lock, regVars,
                   serial, seen, pipeVars, msgVars, q>>

\* the rev_cache read hands its snapshot to its caller
Return(t) ==
    /\ pc[t] = "return"
    /\ seen' = [seen EXCEPT ![t] = loc[t].ret.id]
    /\ pc' = [pc EXCEPT ![t] = "idle"]
    /\ loc' = [loc EXCEPT ![t] = LocIdle]
    /\ UNCHANGED <<cacheVars, calls, pipeVars, msgVars, q>>

NextCache ==
    \/ GitChange
    \/ \E t \in Threads, op \in CacheOps : Begin(t, op)
    \/ \E t \in Threads : Invalidate(t)
    \/ \E t \in Threads : Refresh(t)
    \/ \E t \in Threads : Build(t)
    \/ \E t \in Threads : Assign(t)
    \/ \E t \in Threads : Publish(t)
    \/ \E t \in Threads : Unlock(t)
    \/ \E t \in Threads : Return(t)

SpecCache == InitCache /\ [][NextCache]_vars

----------------------------------------------------------------------------
(* Claims on the refresh protocol *)

\* the thread t is at the end of its with block: its fetch counts are final
\* and the lock is still held
AtEnd(t) == pc[t] = "unlock"

C4_RebuildIffRefsDiffer ==
    \A t \in Threads :
        (AtEnd(t) /\ loc[t].nrefs > 0)
            => IF loc[t].refs # loc[t].before.cache.refs_dict
               THEN /\ loc[t].nrev = 1
                    /\ loc[t].refreshed
                    /\ rev_cache = loc[t].built
                    /\ dict_rev_cache = <<loc[t].built>>
                    /\ rev_cache.id # loc[t].before.id
                    /\ rev_cache.cache.refs_dict = loc[t].refs
               ELSE /\ loc[t].nrev = 0
                    /\ ~loc[t].refreshed
                    /\ rev_cache = loc[t].before
                    /\ dict_rev_cache = loc[t].slot0

\* a check that replaced a built snapshot by a newer one
C4_Witness ==
    \E t \in Threads :
        /\ AtEnd(t)
        /\ loc[t].nrefs > 0
        /\ loc[t].before.id > 0
        /\ loc[t].slot0 = <<loc[t].before>>
        /\ loc[t].refs # loc[t].before.cache.refs_dict
        /\ rev_cache.id > loc[t].before.id

\* what _build_rev_cache returns for references listed at one version of
\* the repository and an ancestry listed at the same or a later one
CompleteCaches ==
    {RevCacheEmpty} \cup
    {build_rev_cache(get_refs(GitAt(v)), GitAt(w).rev_list).cache :
        v \in 0..MaxVer, w \in 0..MaxVer}

\* the threads inside the check-then-build sequence
InCheckThenBuild ==
    {t \in Threads : pc[t] \in {"set_flag", "refresh", "build", "assign",
                                "publish", "unlock"}}

C6_NeverOlderThanAnyEarlierRead ==
    \A t, u \in Threads :
        pc[t] = "return" => loc[t].ret.id >= seen[u]

\* the snapshots are handed out in build order, in the order the reads
\* held the lock and to each thread
MonotonicReads ==
    /\ \A t \in Threads :
           (AtEnd(t) /\ loc[t].op = "rev_cache") => rev_cache.id >= calls.last_ret
    /\ \A t \in Threads :
           pc[t] = "return" => loc[t].ret.id >= seen[t]

\* the facade's snapshot is replaced by the thread that holds the lock
ReplacedUnderLock ==
    rev_cache' # rev_cache
        => /\ rev_cache_lock \in Threads
           /\ pc[rev_cache_lock] = "assign"
           /\ rev_cache_lock' = rev_cache_lock
           /\ rev_cache' = loc[rev_cache_lock].built
           /\ rev_cache'.id > rev_cache.id

\* C6: the rev_cache reads get snapshots in build order in the order they
\* held the lock, no thread is handed a snapshot built earlier than one it
\* was handed before, and the facade's snapshot is replaced only by the
\* thread holding the revision-cache lock.
C6_Monotonic == [](MonotonicReads) /\ [][ReplacedUnderLock]_vars

\* a thread that read a snapshot is about to be handed a newer one
C6_Witness ==
    \E t \in Threads :
        /\ pc[t] = "return"
        /\ seen[t] > 0
        /\ loc[t].ret.id > seen[t]

----------------------------------------------------------------------------
(* The batch pipe: Storage.cat_file and Storage.close                      *)
(*                                                                         *)
(* A subprocess is a record: whether it runs (alive), what it has still   *)
(* to write for the requests written to its stdin (inq) and what it has    *)
(* written to its stdout that nobody has read (out).  cat_file_pipe is the *)
(* number of the subprocess the facade holds, 0 for None.                  *)

\* number of cat_file and close calls a behaviour makes
MaxCatCalls == 3
BlobSha == Sha(5, 5, 0)

CommitSha == Timeline[1]

Kinds == {"commit", "blob"}

Requestable == {CommitSha, BlobSha, AbsentSha}

\* the type git cat-file reports for an object name
ObjectType(g, sha) ==
    IF \E i \in DOMAIN g.rev_list : g.rev_list[i][1] = sha THEN "commit"
    ELSE IF sha = BlobSha THEN "blob"
    ELSE "missing"

\* the header line git cat-file --batch answers with, split at whitespace:
\* "<sha> <type> <size>", or "<sha> missing"
HeaderOf(g, sha) ==
    IF ObjectType(g, sha) = "missing" THEN <<sha, "missing">>
    ELSE <<sha, ObjectType(g, sha), 1>>

\* the contents of an object
ContentsOf(sha) == <<"contents", sha>>

\* the subprocesses a behaviour can start
ProcIds == 1..MaxCatCalls

NewProc == [alive |-> TRUE, inq |-> <<>>, out |-> <<>>]

CatIdle ==
    [op |-> "", kind |-> "", sha |-> NoRev, proc |-> 0, spawned |-> FALSE,
     mismatch |-> FALSE, failed |-> FALSE, res |-> NoneR]

\* the summary of the calls that have left the lock: their number, whether
\* the last cat_file met a type mismatch, and the subprocess it used
NoCatCalls == [n |-> 0, mismatch |-> FALSE, proc |-> 0]

InitPipe ==
    /\ git = GitAt(1)
    /\ rev_cache = Snapshot(0, RevCacheEmpty)
    /\ rev_cache_refresh = TRUE
    /\ rev_cache_lock = 0
    /\ dict_rev_cache = <<>>
    /\ dict_lock = 0
    /\ dict_weak = EmptyDict
    /\ dict_nonweak = EmptyDict
    /\ storages = <<>>
    /\ held = <<>>
    /\ fs = NoFiles
    /\ serial = 0
    /\ pc = [t \in Threads |-> "idle"]
    /\ loc = [t \in Threads |-> CatIdle]
    /\ calls = NoCatCalls
    /\ seen = <<>>
    /\ cat_file_pipe = 0
    /\ cat_file_pipe_lock = 0
    /\ procs = <<>>
    /\ commit_msg_cache = SizedDictInit(MsgCacheSize)
    /\ commit_msg_lock = 0
    /\ heap = <<>>
    /\ q = NoQuery

restVars == <<cacheVars, seen, msgVars, q>>

\* a lock that never holds anybody up
PipeLockFree_always(l) == TRUE

\* "with self.__cat_file_pipe_lock" is entered when nobody holds the lock
PipeLockFree(l) == l = 0

\* cat_file(kind, sha) up to the try: take the lock and, when the facade
\* holds no subprocess, start one
CatFile(t, kind, sha) ==
    /\ pc[t] = "idle"
    /\ PipeLockFree(cat_file_pipe_lock)
    /\ calls.n < MaxCatCalls
    /\ cat_file_pipe_lock' = t
    /\ IF cat_file_pipe = 0
       THEN /\ procs' = Append(procs, NewProc)
            /\ cat_file_pipe' = Len(procs) + 1
       ELSE UNCHANGED <<procs, cat_file_pipe>>
    /\ loc' = [loc EXCEPT ![t] = [CatIdle EXCEPT !.op = "cat_file",
                                                 !.kind = kind, !.sha = sha,
                                                 !.proc = cat_file_pipe',
                                                 !.spawned = (cat_file_pipe = 0)]]
    /\ pc' = [pc EXCEPT ![t] = "write"]
    /\ UNCHANGED <<calls, restVars>>

\* proc.stdin.write(sha + b'\n'); proc.stdin.flush(): IOError when the
\* subprocess is gone
WriteRequest(t) ==
    /\ pc[t] = "write"
    /\ LET p == loc[t].proc
       IN  IF procs[p].alive
           THEN /\ procs' = [procs EXCEPT ![p].inq =
                                 Append(@, [todo |-> "header", sha |-> loc[t].sha])]
                /\ pc' = [pc EXCEPT ![t] = "readline"]
           ELSE /\ pc' = [pc EXCEPT ![t] = "except"]
                /\ UNCHANGED procs
    /\ UNCHANGED <<loc, calls, cat_file_pipe, cat_file_pipe_lock, restVars>>

\* the subprocess writes the next part of its answer to its oldest
\* request: the header line, then the contents of an object it has
GitAnswer(p) ==
    /\ p \in DOMAIN procs
    /\ procs[p].alive
    /\ procs[p].inq # <<>>
    /\ LET r == Head(procs[p].inq)
       IN  IF r.todo = "header"
           THEN procs' = [procs EXCEPT
                    ![p].out = Append(@, HeaderOf(git, r.sha)),
                    ![p].inq = IF ObjectType(git, r.sha) = "missing" THEN Tail(@)
                               ELSE <<[todo |-> "contents", sha |-> r.sha]>>
                                    \o Tail(@)]
           ELSE procs' = [procs EXCEPT ![p].out = Append(@, ContentsOf(r.sha)),
                                       ![p].inq = Tail(@)]
    /\ UNCHANGED <<pc, loc, calls, cat_file_pipe, cat_file_pipe_lock, restVars>>

\* the subprocess dies
KillProc(p) ==
    /\ p \in DOMAIN procs
    /\ procs[p].alive
    /\ procs' = [procs EXCEPT ![p].alive = FALSE, ![p].inq = <<>>]
    /\ UNCHANGED <<pc, loc, calls, cat_file_pipe, cat_file_pipe_lock, restVars>>

\* proc.stdout.readline().split() and the two checks on it: the line the
\* pipe holds next, or no field at end of file; GitError unless it has
\* three fields and the second is the kind asked for
ReadHeader(t) ==
    /\ pc[t] = "readline"
    /\ LET p == loc[t].proc
           line == IF procs[p].out # <<>> THEN Head(procs[p].out) ELSE <<>>
       IN  /\ procs[p].out # <<>> \/ ~procs[p].alive
           /\ procs' = [procs EXCEPT ![p].out = IF @ # <<>> THEN Tail(@) ELSE @]
           /\ IF Len(line) # 3
              THEN /\ pc' = [pc EXCEPT ![t] = "except"]
                   /\ UNCHANGED loc
              ELSE IF line[2] # loc[t].kind
              THEN /\ pc' = [pc EXCEPT ![t] = "except"]
                   /\ loc' = [loc EXCEPT ![t].mismatch = TRUE]
              ELSE /\ pc' = [pc EXCEPT ![t] = "read"]
                   /\ UNCHANGED loc
    /\ UNCHANGED <<calls, cat_file_pipe, cat_file_pipe_lock, restVars>>

\* return proc.stdout.read(size + 1)[:size]: the contents, or what there
\* is of them at end of file
ReadPayload(t) ==
    /\ pc[t] = "read"
    /\ LET p == loc[t].proc
       IN  /\ procs[p].out # <<>> \/ ~procs[p].alive
           /\ procs' = [procs EXCEPT ![p].out = IF @ # <<>> THEN Tail(@) ELSE @]
           /\ loc' = [loc EXCEPT ![t].res =
                         Val(IF procs[p].out # <<>> THEN Head(procs[p].out)
                             ELSE <<>>)]
    /\ pc' = [pc EXCEPT ![t] = "unlock"]
    /\ UNCHANGED <<calls, cat_file_pipe, cat_file_pipe_lock, restVars>>

\* an except clause that keeps the subprocess
PipeAfterError_kept(p) == p

\* self.__cat_file_pipe = None
PipeAfterError(p) == 0

\* terminate(proc); proc.wait()
AliveAfterError(a) == FALSE

\* the bare except clause: close the subprocess' files, terminate it, wait
\* for it and forget it; nothing is raised again, so the call returns None
Except(t) ==
    /\ pc[t] = "except"
    /\ LET p == loc[t].proc
       IN  /\ procs' = [procs EXCEPT ![p].alive = AliveAfterError(@),
                                     ![p].inq = IF AliveAfterError(procs[p].alive)
                                                THEN @ ELSE <<>>]
           /\ cat_file_pipe' = PipeAfterError(p)
    /\ loc' = [loc EXCEPT ![t].failed = TRUE, ![t].res = NoneR]
    /\ pc' = [pc EXCEPT ![t] = "unlock"]
    /\ UNCHANGED <<calls, cat_file_pipe_lock, restVars>>

\* the end of the with block of cat_file releases the lock
Release(t) ==
    /\ pc[t] = "unlock"
    /\ cat_file_pipe_lock' = 0
    /\ calls' = [n |-> calls.n + 1, mismatch |-> loc[t].mismatch,
                 proc |-> loc[t].proc]
    /\ pc' = [pc EXCEPT ![t] = "idle"]
    /\ loc' = [loc EXCEPT ![t] = CatIdle]
    /\ UNCHANGED <<cat_file_pipe, procs, restVars>>

\* Storage.close: under the lock, close the files of the subprocess held,
\* terminate it, wait for it and forget it
Close(t) ==
    /\ pc[t] = "idle"
    /\ PipeLockFree(cat_file_pipe_lock)
    /\ calls.n < MaxCatCalls
    /\ IF cat_file_pipe # 0
       THEN /\ procs' = [procs EXCEPT ![cat_file_pipe].alive = FALSE,
                                      ![cat_file_pipe].inq = <<>>]
            /\ cat_file_pipe' = 0
       ELSE UNCHANGED <<procs, cat_file_pipe>>
    /\ calls' = [calls EXCEPT !.n = @ + 1]
    /\ UNCHANGED <<pc, loc, cat_file_pipe_lock, restVars>>

NextPipe ==
    \/ \E t \in Threads, kind \in Kinds, sha \in Requestable : CatFile(t, kind, sha)
    \/ \E t \in Threads : WriteRequest(t)
    \/ \E p \in ProcIds : GitAnswer(p)
    \/ \E p \in ProcIds : KillProc(p)
    \/ \E t \in Threads : ReadHeader(t)
    \/ \E t \in Threads : ReadPayload(t)
    \/ \E t \in Threads : Except(t)
    \/ \E t \in Threads : Release(t)
    \/ \E t \in Threads : Close(t)

SpecPipe == InitPipe /\ [][NextPipe]_vars

----------------------------------------------------------------------------
(* Claims on the batch pipe *)

\* C1: a cat_file call whose response header names another type than the
\* kind asked for raises a protocol error to its caller, and the cat_file
\* call after it runs on a subprocess started for it and, that subprocess
\* staying alive, returns the contents of an object of the kind asked for.
C1_MismatchRaises ==
    \A t \in Threads :
        pc[t] = "unlock" =>
            /\ loc[t].mismatch => loc[t].res = Raise("GitError")
            /\ calls.mismatch =>
                   /\ loc[t].spawned
                   /\ loc[t].proc > calls.proc
                   /\ (procs[loc[t].proc].alive
                       /\ ObjectType(git, loc[t].sha) = loc[t].kind)
                          => loc[t].res = Val(ContentsOf(loc[t].sha))

InCatFile(t) == pc[t] # "idle"

\* C21: only the subprocess the facade holds is running, so at most one;
\* at most one thread is inside cat_file and it holds the lock; a
\* subprocess has at most one request it has not fully answered; and a
\* thread about to release the lock has either read its answer to the end,
\* leaving nothing unanswered or unread, or torn the pipe down.
C21_OneRequestInFlight ==
    /\ \A p \in DOMAIN procs : procs[p].alive => p = cat_file_pipe
    /\ \A t, u \in Threads : (InCatFile(t) /\ InCatFile(u)) => t = u
    /\ \A t \in Threads : InCatFile(t) => cat_file_pipe_lock = t
    /\ \A p \in DOMAIN procs : Len(procs[p].inq) <= 1
    /\ \A t \in Threads :
           pc[t] = "unlock"
               => \/ /\ loc[t].res.tag = "val"
                     /\ procs[loc[t].proc].inq = <<>>
                     /\ procs[loc[t].proc].out = <<>>
                  \/ /\ loc[t].failed
                     /\ cat_file_pipe = 0
                     /\ ~procs[loc[t].proc].alive

\* a thread waits for the contents of its request on a subprocess that an
\* earlier call left to it, while another thread is free to call
C21_Witness ==
    \E t \in Threads :
        /\ pc[t] = "read"
        /\ ~loc[t].spawned
        /\ procs[loc[t].proc].alive
        /\ procs[loc[t].proc].inq # <<>>
        /\ \E u \in Threads \ {t} : pc[u] = "idle"

\* C22: a cat_file call that finds the facade holding a subprocess that
\* has died runs on a subprocess spawned for it.
C22_RespawnOnNextUse ==
    [][\A t \in Threads :
           (/\ pc[t] = "idle"
            /\ pc'[t] = "write"
            /\ cat_file_pipe # 0
            /\ ~procs[cat_file_pipe].alive)
               => loc'[t].spawned]_vars

----------------------------------------------------------------------------
(* SizedDict on its own: a dict of some capacity and a sequence of         *)
(* __setitem__ calls on it.  The dict under test is held in                *)
(* commit_msg_cache; calls lists the keys ever set, in the order of their  *)
(* latest insertion as a new key.                                          *)

KeyNames == <<"a", "b", "c", "d", "e", "f">>

\* one key more than the largest capacity holds
Keys == {KeyNames[i] : i \in 1..(MaxSize + 1)}

Values == {"x", "y"}

InitSized ==
    /\ git = GitAt(0)
    /\ rev_cache = Snapshot(0, RevCacheEmpty)
    /\ rev_cache_refresh = TRUE
    /\ rev_cache_lock = 0
    /\ dict_rev_cache = <<>>
    /\ dict_lock = 0
    /\ dict_weak = EmptyDict
    /\ dict_nonweak = EmptyDict
    /\ storages = <<>>
    /\ held = <<>>
    /\ fs = NoFiles
    /\ serial = 0
    /\ pc = <<>>
    /\ loc = <<>>
    /\ calls = <<>>
    /\ seen = <<>>
    /\ cat_file_pipe = 0
    /\ cat_file_pipe_lock = 0
    /\ procs = <<>>
    /\ commit_msg_cache \in {SizedDictInit(c) : c \in 0..MaxSize}
    /\ commit_msg_lock = 0
    /\ heap = <<>>
    /\ q = NoQuery

\* d[name] = value
SetItem(name, value) ==
    /\ LET r == SizedSetItem(commit_msg_cache, name, value)
       IN  /\ commit_msg_cache' = r.d
           /\ q' = [op |-> "setitem", name |-> name, value |-> value,
                    before |-> commit_msg_cache,
                    res |-> IF r.exc = "" THEN NoneR ELSE Raise(r.exc)]
    /\ calls' = IF name \in DOMAIN commit_msg_cache.map THEN calls
                ELSE Append(SelectSeq(calls, LAMBDA k : k # name), name)
    /\ UNCHANGED <<cacheVars, pc, loc, seen, pipeVars, commit_msg_lock, heap>>

NextSized == \E name \in Keys, value \in Values : SetItem(name, value)

SpecSized == InitSized /\ [][NextSized]_vars

\* the last n elements of s, all of s when it is shorter
LastN(s, n) == SubSeq(s, IF Len(s) > n THEN Len(s) - n + 1 ELSE 1, Len(s))

\* C13: after any sequence of set operations on a SizedDict of capacity C,
\* the number of stored keys equals the length of the FIFO and is at most
\* C, and the stored keys are the (up to C) keys whose latest insertion as
\* a new key is most recent, held in the FIFO in that order, so that an
\* eviction removes the key that has been present longest.
C13_SizedDictFifo ==
    LET d == commit_msg_cache
    IN  /\ q.res = NoneR
        /\ Cardinality(DOMAIN d.map) = Len(d.key_fifo)
        /\ Len(d.key_fifo) <= d.max_size
        /\ d.key_fifo = LastN(calls, d.max_size)
        /\ DOMAIN d.map = Range(LastN(calls, d.max_size))

\* a dict of capacity two or more that has evicted a key
C13_Witness ==
    /\ q.op = "setitem"
    /\ commit_msg_cache.max_size >= 2
    /\ Len(commit_msg_cache.key_fifo) = commit_msg_cache.max_size
    /\ Len(calls) > commit_msg_cache.max_size
    /\ q.name \notin DOMAIN q.before.map
    /\ Head(q.before.key_fifo) \notin DOMAIN commit_msg_cache.map

\* C14: setting a key that is present replaces its value, evicts nothing
\* and leaves the FIFO, and with it the key's turn to be evicted, as it was.
C14_ResetKeepsPosition ==
    (q.op = "setitem" /\ q.name \in DOMAIN q.before.map)
        => /\ commit_msg_cache.map = [q.before.map EXCEPT ![q.name] = q.value]
           /\ commit_msg_cache.key_fifo = q.before.key_fifo
           /\ q.res = NoneR

\* the oldest key of a full dict got another value and stayed the oldest
C14_Witness ==
    /\ q.op = "setitem"
    /\ Len(q.before.key_fifo) >= 2
    /\ q.name = Head(q.before.key_fifo)
    /\ q.before.map[q.name] # q.value
    /\ commit_msg_cache.map[q.name] = q.value
    /\ Head(commit_msg_cache.key_fifo) = q.name

----------------------------------------------------------------------------
(* parse_commit on its own: it is applied to one raw commit, a header      *)
(* block that begins with a header line, the empty line and a message.     *)

HeaderKeys == {"parent", "mergetag"}

HeaderLines == {<<k, v>> : k \in HeaderKeys, v \in {"v1", "v2"}}

ContinuationLines == {<<" ", "c1">>, <<" ", "c2">>}

HeaderBlocks ==
    UNION {{b \in [1..n -> HeaderLines \cup ContinuationLines] :
               b[1] \in HeaderLines} : n \in 1..MaxHeaderLines}

Message == <<<<"subject">>, <<>>, <<"body">>>>

RawCommits == {b \o <<<<>>>> \o Message : b \in HeaderBlocks}

InitParse ==
    /\ git = GitAt(0)
    /\ rev_cache = Snapshot(0, RevCacheEmpty)
    /\ rev_cache_refresh = TRUE
    /\ rev_cache_lock = 0
    /\ dict_rev_cache = <<>>
    /\ dict_lock = 0
    /\ dict_weak = EmptyDict
    /\ dict_nonweak = EmptyDict
    /\ storages = <<>>
    /\ held = <<>>
    /\ fs = NoFiles
    /\ serial = 0
    /\ pc = <<>>
    /\ loc = <<>>
    /\ calls = <<>>
    /\ seen = <<>>
    /\ cat_file_pipe = 0
    /\ cat_file_pipe_lock = 0
    /\ procs = <<>>
    /\ commit_msg_cache = SizedDictInit(MsgCacheSize)
    /\ commit_msg_lock = 0
    /\ heap = <<>>
    /\ q = NoQuery

ParseCommit(raw) ==
    /\ q.op = "none"
    /\ q' = [op |-> "parse_commit", raw |-> raw, res |-> parse_commit(raw)]
    /\ UNCHANGED <<cacheVars, threadVars, pipeVars, msgVars>>

NextParse == \E raw \in RawCommits : ParseCommit(raw)

SpecParse == InitParse /\ [][NextParse]_vars

\* the header block of a raw commit: its lines before the empty line
RECURSIVE BlockOf(_)
BlockOf(raw) ==
    IF raw = <<>> \/ Head(raw) = <<>> THEN <<>>
    ELSE <<Head(raw)>> \o BlockOf(Tail(raw))

\* the continuation texts that follow line i of the block directly
RECURSIVE OwnContinuations(_, _)
OwnContinuations(block, i) ==
    IF i + 1 > Len(block) \/ block[i + 1][1] # " " THEN <<>>
    ELSE <<block[i + 1][2]>> \o OwnContinuations(block, i + 1)

\* the values the header lines named key contribute, in encounter order:
\* each its own value followed by its own continuation lines
RECURSIVE ValuesOf(_, _, _)
ValuesOf(block, key, i) ==
    IF i > Len(block) THEN <<>>
    ELSE (IF block[i][1] = key
          THEN <<<<block[i][2]>> \o OwnContinuations(block, i)>>
          ELSE <<>>)
         \o ValuesOf(block, key, i + 1)

\* C17: parse_commit maps every header name of the block to the list of
\* its values in encounter order, each header line contributing its own
\* first-line value joined by newlines with its own continuation lines,
\* also when consecutive multi-line headers carry the same name.
C17_ParseCommitHeaders ==
    q.op = "parse_commit"
        => LET block == BlockOf(q.raw)
               keys == {block[i][1] : i \in DOMAIN block} \ {" "}
           IN  /\ q.res.tag = "val"
               /\ q.res.val.message = Message
               /\ DOMAIN q.res.val.props = keys
               /\ \A k \in keys : q.res.val.props[k] = ValuesOf(block, k, 1)

----------------------------------------------------------------------------
(* Storage.read_commit and the commit message cache                        *)
(*                                                                         *)
(* A facade whose snapshot is current serves read_commit calls, and the    *)
(* callers change what they were handed.  parse_commit's property lists    *)
(* are objects: heap[i] is the list with identity i, and a properties dict *)
(* maps a header name to the identity of its list.  cat_file is taken as   *)
(* a whole, with the outcomes the batch pipe has.                          *)

\* number of changes the callers make to what they were handed
MaxMutations == 1
\* enough reads to fill the cache, evict an entry and read it again
MaxReads == MsgCacheSize + 2

\* the repository read from: a chain of one commit more than the cache holds
CommitRepo == GitAt(MsgCacheSize + 1)

\* the raw commit object of sha, as cat-file prints it
RawOf(g, sha) ==
    LET i == CHOOSE j \in DOMAIN g.rev_list : g.rev_list[j][1] = sha
        ps == SubSeq(g.rev_list[i], 2, Len(g.rev_list[i]))
    IN  <<<<"tree", "t1">>>>
        \o [j \in 1..Len(ps) |-> <<"parent", ps[j]>>]
        \o <<<<"mergetag", "m1">>, <<" ", "c1">>, <<"author", "a1">>,
             <<>>, <<"subject">>>>

\* what cat_file('commit', sha) returns: the object; None after the except
\* clause; nothing of the contents when the subprocess died before writing
\* them; an object that is no commit text
FetchOutcomes == {"ok", "none", "empty", "garbled"}

Fetched(g, sha, outcome) ==
    CASE outcome = "ok" -> RawOf(g, sha)
      [] outcome = "garbled" -> <<<<"tree">>, <<>>>>
      [] OTHER -> <<>>

\* the names of a properties dict in some fixed order
RECURSIVE KeySeq(_)
KeySeq(S) ==
    IF S = {} THEN <<>>
    ELSE LET k == CHOOSE x \in S : TRUE IN <<k>> \o KeySeq(S \ {k})

\* the lists of props as new objects after those of h: the dict of their
\* identities and the heap that holds them
Allocate(h, props) ==
    LET ks == KeySeq(DOMAIN props)
    IN  [props |-> [k \in DOMAIN props |->
                       Len(h) + (CHOOSE i \in DOMAIN ks : ks[i] = k)],
         heap |-> h \o [i \in DOMAIN ks |-> props[ks[i]]]]

\* dict(result[1]): a new dict of the same list objects
DictCopy(props) == [k \in DOMAIN props |-> props[k]]

\* the values a dict of list identities stands for
Deref(props) == [k \in DOMAIN props |-> heap[props[k]]]

NoReads ==
    [reads |-> 0, mutations |-> 0, requests |-> 0, inserted |-> <<>>,
     parsed |-> EmptyDict]

InitCommit ==
    /\ git = CommitRepo
    /\ rev_cache = Snapshot(1, build_rev_cache(get_refs(git), git.rev_list).cache)
    /\ rev_cache_refresh = FALSE
    /\ rev_cache_lock = 0
    /\ dict_rev_cache = <<rev_cache>>
    /\ dict_lock = 0
    /\ dict_weak = EmptyDict
    /\ dict_nonweak = EmptyDict
    /\ storages = <<>>
    /\ held = <<>>
    /\ fs = NoFiles
    /\ serial = 1
    /\ pc = <<>>
    /\ loc = <<>>
    /\ calls = NoReads
    /\ seen = <<>>
    /\ cat_file_pipe = 0
    /\ cat_file_pipe_lock = 0
    /\ procs = <<>>
    /\ commit_msg_cache = SizedDictInit(MsgCacheSize)
    /\ commit_msg_lock = 0
    /\ heap = <<>>
    /\ q = NoQuery

\* the batch pipe after a cat_file call with the given outcome
PipeAfter(outcome) ==
    LET spawned == cat_file_pipe = 0
        ps == IF spawned THEN Append(procs, NewProc) ELSE procs
        p == IF spawned THEN Len(procs) + 1 ELSE cat_file_pipe
    IN  CASE outcome = "none" ->
                 [pipe |-> PipeAfterError(p),
                  procs |-> [ps EXCEPT ![p].alive = AliveAfterError(@)]]
          [] outcome = "empty" ->
                 [pipe |-> p, procs |-> [ps EXCEPT ![p].alive = FALSE]]
          [] OTHER -> [pipe |-> p, procs |-> ps]

\* read_commit(commit_id), under the commit message lock from the cache
\* lookup to the return
ReadCommit(commit_id, outcome) ==
    /\ commit_msg_lock = 0
    /\ calls.reads < MaxReads
    /\ LET db == rev_cache.cache.rev_dict
           full == fullrev(rev_cache.cache, commit_id)
           id == full.val
           hit == id \in DOMAIN commit_msg_cache.map
           raw == Fetched(git, id, outcome)
           parsed == parse_commit(raw)
           result == Allocate(heap, parsed.val.props)
           stored == SizedSetItem(commit_msg_cache, id,
                                  [message |-> parsed.val.message,
                                   props |-> result.props])
           about == [op |-> "read_commit", rev |-> commit_id, id |-> id,
                     before |-> commit_msg_cache, requests |-> 0,
                     fresh |-> FALSE, res |-> NoneR]
       IN  IF full.tag = "raise"
           THEN /\ q' = [about EXCEPT !.res = full, !.id = NoRev]
                /\ calls' = [calls EXCEPT !.reads = @ + 1]
                /\ UNCHANGED <<pipeVars, commit_msg_cache, heap>>
           ELSE IF full.tag = "none" \/ id \notin DOMAIN db
           THEN /\ q' = [about EXCEPT !.res = Raise("GitErrorSha")]
                /\ calls' = [calls EXCEPT !.reads = @ + 1]
                /\ UNCHANGED <<pipeVars, commit_msg_cache, heap>>
           ELSE IF hit
           THEN /\ q' = [about EXCEPT
                            !.fresh = id \in Range(LastN(calls.inserted,
                                                         MsgCacheSize)),
                            !.res = Val([message |-> commit_msg_cache.map[id].message,
                                         props |-> DictCopy(
                                             commit_msg_cache.map[id].props)])]
                /\ calls' = [calls EXCEPT !.reads = @ + 1]
                /\ UNCHANGED <<pipeVars, commit_msg_cache, heap>>
           ELSE /\ IF outcome = "none" \/ cat_file_pipe = 0 THEN TRUE
                   ELSE procs[cat_file_pipe].alive
                /\ cat_file_pipe' = PipeAfter(outcome).pipe
                /\ procs' = PipeAfter(outcome).procs
                /\ UNCHANGED cat_file_pipe_lock
                /\ IF raw = <<>> \/ parsed.tag = "raise"
                   THEN /\ q' = [about EXCEPT
                                    !.requests = 1,
                                    !.res = IF raw = <<>> THEN Raise("GitErrorSha")
                                            ELSE parsed]
                        /\ calls' = [calls EXCEPT !.reads = @ + 1,
                                                  !.requests = @ + 1]
                        /\ UNCHANGED <<commit_msg_cache, heap>>
                   ELSE /\ commit_msg_cache' = stored.d
                        /\ heap' = result.heap
                        /\ q' = [about EXCEPT
                                    !.requests = 1,
                                    !.res = Val([message |-> parsed.val.message,
                                                 props |-> DictCopy(result.props)])]
                        /\ calls' =
                               [calls EXCEPT
                                   !.reads = @ + 1,
                                   !.requests = @ + 1,
                                   !.inserted =
                                       Append(SelectSeq(@, LAMBDA k : k # id), id),
                                   !.parsed =
                                       [k \in DOMAIN @ \cup {id} |->
                                           IF k = id THEN parsed.val ELSE @[k]]]
    /\ UNCHANGED <<cacheVars, pc, loc, seen, commit_msg_lock>>

\* the caller holds the value the last read_commit returned
Holding == q.op \in {"read_commit", "mutated"} /\ q.res.tag = "val"

HeaderNames == {"tree", "parent", "mergetag", "author"}

\* the caller changes a list it was handed: props[name].append(...) or
\* props[name][0] = ...
MutateList(name, how) ==
    /\ Holding
    /\ calls.mutations < MaxMutations
    /\ name \in DOMAIN q.res.val.props
    /\ heap' = [heap EXCEPT ![q.res.val.props[name]] =
                   IF how = "append" THEN Append(@, <<"appended">>)
                   ELSE [@ EXCEPT ![1] = <<"replaced">>]]
    /\ q' = [q EXCEPT !.op = "mutated"]
    /\ calls' = [calls EXCEPT !.mutations = @ + 1]
    /\ UNCHANGED <<cacheVars, pc, loc, seen, pipeVars, commit_msg_cache,
                   commit_msg_lock>>

\* the caller changes the dict it was handed: del props[name]
MutateDict(name) ==
    /\ Holding
    /\ calls.mutations < MaxMutations
    /\ name \in DOMAIN q.res.val.props
    /\ q' = [q EXCEPT !.op = "mutated",
                      !.res = Val([message |-> q.res.val.message,
                                   props |-> [k \in DOMAIN q.res.val.props \ {name}
                                                 |-> q.res.val.props[k]]])]
    /\ calls' = [calls EXCEPT !.mutations = @ + 1]
    /\ UNCHANGED <<cacheVars, pc, loc, seen, pipeVars, msgVars>>

\* the revisions read_commit is asked for: the commits by full and by short
\* id, and one that is none
Readable ==
    {CommitRepo.rev_list[i][1] : i \in DOMAIN CommitRepo.rev_list}
        \cup {Take(Timeline[1], SREV_MIN + 1), Sha(1, 6, 1)}

NextCommit ==
    \/ \E commit_id \in Readable, outcome \in FetchOutcomes :
           ReadCommit(commit_id, outcome)
    \/ \E name \in HeaderNames, how \in {"append", "replace"} :
           MutateList(name, how)
    \/ \E name \in HeaderNames : MutateDict(name)

SpecCommit == InitCommit /\ [][NextCommit]_vars

----------------------------------------------------------------------------
(* Claims on read_commit *)

\* the last call was a read_commit that returned a value
Returned == q.op = "read_commit" /\ q.res.tag = "val"

\* C15: whatever the callers did to what they were handed, the cache holds
\* the message and header values as parsed, and a read_commit served from
\* the cache returns them.
C15_ReturnIsolated ==
    /\ \A id \in DOMAIN commit_msg_cache.map :
           /\ commit_msg_cache.map[id].message = calls.parsed[id].message
           /\ Deref(commit_msg_cache.map[id].props) = calls.parsed[id].props
    /\ (Returned /\ q.requests = 0)
           => /\ q.res.val.message = calls.parsed[q.id].message
              /\ Deref(q.res.val.props) = calls.parsed[q.id].props

\* C16: a read_commit for a revision whose entry is among the MsgCacheSize
\* most recently inserted sends no request on the batch pipe and returns
\* the message and headers of the read that populated the cache; a
\* read_commit that fails leaves the cache as it was.
C16_CacheFirst ==
    q.op = "read_commit"
        => /\ (q.id # NoRev
               /\ q.id \in Range(LastN(SelectSeq(calls.inserted,
                                                 LAMBDA k : k # q.id)
                                       \o <<q.id>>, MsgCacheSize))
               /\ q.id \in DOMAIN q.before.map)
                  => /\ q.requests = 0
                     /\ q.res.tag = "val"
                     /\ q.res.val.message = calls.parsed[q.id].message
                     /\ Deref(q.res.val.props) = calls.parsed[q.id].props
           /\ q.fresh => q.requests = 0
           /\ q.res.tag # "val" => commit_msg_cache = q.before

----------------------------------------------------------------------------
(* The registry: StorageFactory and Storage.__init__                       *)
(*                                                                         *)
(* A path is the sequence of its components, so os.path.join appends.  The *)
(* file system (fs) is the set of paths that exist and the set of files    *)
(* that can be opened for reading; it does not change.  A Storage is a     *)
(* record of the fields the registry and the refresh check use, and its    *)
(* number in storages is its identity.  A caller is a thread that holds at *)
(* most one facade, through the factory it asked and what getInstance()    *)
(* gave it.  An object nobody refers to is collected at once or later, and *)
(* the weak dictionary loses its entry when it is collected; a lookup is   *)
(* the one place where that shows, so a request says whether what nobody   *)
(* refers to has been collected by the time it looks (gc, chosen only when *)
(* there is something to collect).                                         *)
(* Every valid path leads to a repository with the same history.           *)

\* number of Storage objects a behaviour constructs
MaxStorages == 2
\* the callers that ask the registry for facades
Callers == {"alice", "bob"}

ControlFiles == {"HEAD", "objects", "refs"}

\* os.path.join(dir, name)
Join(dir, name) == Append(dir, name)

\* a bare repository: the path is the control directory
Bare == <<"srv", "repo.git">>

\* a working tree: the control directory is nested in the path
Work == <<"home", "work">>

\* a working tree whose nested control directory lacks objects
Broken == <<"tmp", "broken">>

\* the path of the file systems of SpecConstruct
Target == <<"repo">>

Paths == {Bare, Work, Broken}

FileSystem ==
    [exists |->
         {Join(Bare, f) : f \in ControlFiles}
         \cup {Join(Work, "refs"), Join(Work, ".git")}
         \cup {Join(Join(Work, ".git"), f) : f \in ControlFiles}
         \cup {Join(Broken, ".git"), Join(Join(Broken, ".git"), "HEAD"),
               Join(Join(Broken, ".git"), "refs")},
     readable |->
         {Join(Bare, "HEAD"), Join(Join(Work, ".git"), "HEAD"),
          Join(Join(Broken, ".git"), "HEAD")}]

\* the file system in which Target holds the control files top, of which
\* HEAD can be opened when rtop, and, when dotgit, a directory .git that
\* holds the control files nested, of which HEAD can be opened when rnested
LayoutOf(top, dotgit, nested, rtop, rnested) ==
    LET dir == Join(Target, ".git")
    IN  [exists |-> {Join(Target, f) : f \in top}
                    \cup (IF dotgit
                          THEN {dir} \cup {Join(dir, f) : f \in nested}
                          ELSE {}),
         readable |-> (IF rtop /\ "HEAD" \in top
                       THEN {Join(Target, "HEAD")} ELSE {})
                      \cup (IF rnested /\ dotgit /\ "HEAD" \in nested
                            THEN {Join(dir, "HEAD")} ELSE {})]

Layouts ==
    {LayoutOf(top, dotgit, nested, rtop, rnested) :
        top \in SUBSET ControlFiles, dotgit \in BOOLEAN,
        nested \in SUBSET ControlFiles, rtop \in BOOLEAN, rnested \in BOOLEAN}

\* a check that is content with one control file
control_files_exist_any(files, dir) ==
    \E f \in ControlFiles : Join(dir, f) \in files.exists

\* all(map(os.path.exists, map(p, control_files)))
control_files_exist(files, dir) ==
    \A f \in ControlFiles : Join(dir, f) \in files.exists

\* a constructor that trusts the snapshot it is given
RefreshAtInit_trusting(arg) == arg = NoSnapshot

\* self.__rev_cache_refresh = True, whatever rev_cache is given
RefreshAtInit(arg) == TRUE

\* Storage.__init__(git_dir, rev_cache=arg), NoSnapshot for None: the new
\* object, or GitError
storage_init(files, git_dir, arg) ==
    LET nested == Join(git_dir, ".git")
        top_ok == control_files_exist(files, git_dir)
        nested_ok == nested \in files.exists /\ control_files_exist(files, nested)
        dir == IF top_ok THEN git_dir ELSE nested
    IN  IF ~top_ok /\ ~nested_ok THEN Raise("GitError")
        ELSE IF Join(dir, "HEAD") \notin files.readable THEN Raise("GitError")
        ELSE Val([path |-> git_dir,
                  repo_path |-> dir,
                  rev_cache |-> IF arg = NoSnapshot
                                THEN Snapshot(0, RevCacheEmpty) ELSE arg,
                  rev_cache_refresh |-> RefreshAtInit(arg),
                  queried |-> FALSE])

\* del d[k], doing nothing for a missing key
Without(d, k) == [x \in DOMAIN d \ {k} |-> d[x]]

\* d[k] = v
With(d, k, v) == [x \in DOMAIN d \cup {k} |-> IF x = k THEN v ELSE d[x]]

\* d.get(k)
SlotGet(d, k) == IF k \in DOMAIN d THEN d[k] ELSE NoSnapshot

\* the Storage objects somebody refers to: a caller or the pin dictionary
Referenced(h, nonweak) == (Range(h) \cup Range(nonweak)) \ {0}

\* the weak dictionary after the collection of what nobody refers to
Swept(weak, refd) == [k \in {x \in DOMAIN weak : weak[x] \in refd} |-> weak[k]]

\* a lookup that finds nothing
Registered_never(d, repo) == FALSE

\* "i = self.__dict[repo]" raises no KeyError
Registered(d, repo) == repo \in DOMAIN d

\* the summary of the run: the number of external-tool commands run and,
\* per path, the snapshot a facade constructed for it published last
NoRegistryCalls ==
    [commands |-> 0, published |-> [p \in Paths \cup {Target} |-> NoSnapshot]]

InitRegistry ==
    /\ git = GitAt(MaxVer - 1)
    /\ rev_cache = Snapshot(0, RevCacheEmpty)
    /\ rev_cache_refresh = TRUE
    /\ rev_cache_lock = 0
    /\ dict_rev_cache = EmptyDict
    /\ dict_lock = 0
    /\ dict_weak = EmptyDict
    /\ dict_nonweak = EmptyDict
    /\ storages = <<>>
    /\ held = [t \in Callers |-> 0]
    /\ fs = FileSystem
    /\ serial = 0
    /\ pc = <<>>
    /\ loc = <<>>
    /\ calls = NoRegistryCalls
    /\ seen = <<>>
    /\ cat_file_pipe = 0
    /\ cat_file_pipe_lock = 0
    /\ procs = <<>>
    /\ commit_msg_cache = SizedDictInit(MsgCacheSize)
    /\ commit_msg_lock = 0
    /\ heap = <<>>
    /\ q = NoQuery

\* an empty registry and a path in any state
InitConstruct ==
    /\ git = GitAt(MaxVer - 1)
    /\ rev_cache = Snapshot(0, RevCacheEmpty)
    /\ rev_cache_refresh = TRUE
    /\ rev_cache_lock = 0
    /\ dict_rev_cache = EmptyDict
    /\ dict_lock = 0
    /\ dict_weak = EmptyDict
    /\ dict_nonweak = EmptyDict
    /\ storages = <<>>
    /\ held = [t \in Callers |-> 0]
    /\ fs \in Layouts
    /\ serial = 0
    /\ pc = <<>>
    /\ loc = <<>>
    /\ calls = NoRegistryCalls
    /\ seen = <<>>
    /\ cat_file_pipe = 0
    /\ cat_file_pipe_lock = 0
    /\ procs = <<>>
    /\ commit_msg_cache = SizedDictInit(MsgCacheSize)
    /\ commit_msg_lock = 0
    /\ heap = <<>>
    /\ q = NoQuery

facadeVars == <<rev_cache, rev_cache_refresh, rev_cache_lock, dict_lock, pc,
                loc, seen, pipeVars, msgVars>>

\* StorageFactory(repo, log, weak).getInstance() by a caller that holds no
\* facade: the whole constructor runs under the registry lock
Request(t, repo, weak, gc) ==
    /\ held[t] = 0
    /\ LET nonweak1 == IF weak THEN Without(dict_nonweak, repo) ELSE dict_nonweak
           refd == Referenced(held, nonweak1)
           weak1 == IF gc THEN Swept(dict_weak, refd) ELSE dict_weak
           found == Registered(weak1, repo)
           made == storage_init(fs, repo, SlotGet(dict_rev_cache, repo))
           i == IF found THEN weak1[repo] ELSE Len(storages) + 1
           about == [op |-> "request", by |-> t, path |-> repo, weak |-> weak,
                     kept |-> IF repo \in DOMAIN dict_weak
                                 /\ dict_weak[repo] \in refd
                              THEN dict_weak[repo] ELSE 0,
                     constructed |-> FALSE, commands |-> calls.commands,
                     serial |-> serial, res |-> NoneR]
       IN  IF gc /\ weak1 = dict_weak
           THEN FALSE
           ELSE IF ~found /\ made.tag = "raise"
           THEN /\ dict_nonweak' = nonweak1
                /\ dict_weak' = weak1
                /\ q' = [about EXCEPT !.res = made]
                /\ UNCHANGED <<storages, held>>
           ELSE /\ IF found THEN TRUE ELSE Len(storages) < MaxStorages
                /\ storages' = IF found THEN storages
                               ELSE Append(storages, made.val)
                /\ dict_weak' = IF found THEN weak1 ELSE With(weak1, repo, i)
                /\ dict_nonweak' = IF weak THEN nonweak1
                                   ELSE With(nonweak1, repo, i)
                /\ held' = [held EXCEPT ![t] = i]
                /\ q' = [about EXCEPT !.constructed = ~found, !.res = Val(i)]
    /\ UNCHANGED <<git, dict_rev_cache, fs, serial, calls, facadeVars>>

\* the caller lets go of its factory and its facade
Drop(t) ==
    /\ held[t] # 0
    /\ held' = [held EXCEPT ![t] = 0]
    /\ q' = [NoQuery EXCEPT !.op = "drop"]
    /\ UNCHANGED <<git, dict_rev_cache, dict_weak, dict_nonweak, storages, fs,
                   serial, calls, facadeVars>>

\* the caller reads rev_cache of the facade it holds, while the repository
\* stays as it is: the refresh check and, when the references differ, the
\* rebuild and the publication under repo_path
Query(t) ==
    /\ held[t] # 0
    /\ LET i == held[t]
           st == storages[i]
           check == st.rev_cache_refresh
           refs == get_refs(git)
           changed == check /\ RefsChanged(st.rev_cache.cache, refs)
           b == build_rev_cache(refs, git.rev_list)
           built == Snapshot(serial + 1, b.cache)
           about == [op |-> "rev_cache", storage |-> i, path |-> st.path,
                     first |-> ~st.queried, start |-> st.rev_cache,
                     published0 |-> calls.published[st.path],
                     nrefs |-> IF check THEN 1 ELSE 0,
                     nrev |-> IF changed THEN 1 ELSE 0, res |-> NoneR]
       IN  /\ calls' = [calls EXCEPT
                           !.commands = @ + about.nrefs + about.nrev,
                           !.published[st.path] =
                               IF changed /\ b.ok THEN built ELSE @]
           /\ IF changed /\ ~b.ok
              THEN /\ storages' = [storages EXCEPT
                                      ![i].rev_cache_refresh = FlagAfterCheck,
                                      ![i].queried = TRUE]
                   /\ q' = [about EXCEPT !.res = Raise(b.exc)]
                   /\ UNCHANGED <<dict_rev_cache, serial>>
              ELSE /\ storages' =
                          [storages EXCEPT
                              ![i].rev_cache_refresh =
                                  IF check THEN FlagAfterCheck ELSE @,
                              ![i].rev_cache = IF changed THEN built ELSE @,
                              ![i].queried = TRUE]
                   /\ dict_rev_cache' =
                          IF changed THEN With(dict_rev_cache, st.repo_path, built)
                          ELSE dict_rev_cache
                   /\ serial' = IF changed THEN serial + 1 ELSE serial
                   /\ q' = [about EXCEPT
                               !.res = Val(IF changed THEN built
                                           ELSE st.rev_cache)]
    /\ UNCHANGED <<git, dict_weak, dict_nonweak, held, fs, facadeVars>>

\* a commit lands on master of every repository, once
Commit ==
    /\ GitVer(git) < MaxVer
    /\ git' = GitAt(GitVer(git) + 1)
    /\ q' = NoQuery
    /\ UNCHANGED <<dict_rev_cache, regVars, serial, calls, facadeVars>>

NextRegistry ==
    \/ \E t \in Callers, repo \in Paths, weak \in BOOLEAN, gc \in BOOLEAN :
           Request(t, repo, weak, gc)
    \/ \E t \in Callers : Drop(t)
    \/ \E t \in Callers : Query(t)
    \/ Commit

SpecRegistry == InitRegistry /\ [][NextRegistry]_vars

\* requests for the one path of a file system in any state
NextConstruct ==
    \E t \in Callers, weak \in BOOLEAN, gc \in BOOLEAN :
        Request(t, Target, weak, gc)

SpecConstruct == InitConstruct /\ [][NextConstruct]_vars

----------------------------------------------------------------------------
(* Claims on the registry *)

\* the facades somebody refers to
Live == Referenced(held, dict_nonweak)

C24_WarmStart ==
    /\ (q.op = "request" /\ q.res.tag = "val" /\ q.constructed
        /\ calls.published[q.path] # NoSnapshot)
           => storages[q.res.val].rev_cache = calls.published[q.path]
    /\ (q.op = "rev_cache" /\ q.first /\ q.published0 # NoSnapshot
        /\ q.published0.cache.refs_dict = get_refs(git))
           => q.nrev = 0

\* the first read of a facade that started from a shared snapshot whose
\* references are not the repository's
StaleStart ==
    /\ q.op = "rev_cache"
    /\ q.first
    /\ q.start.cache # RevCacheEmpty
    /\ q.start.cache.refs_dict # get_refs(git)

\* C25: the first rev_cache read of a facade constructed from a shared
\* snapshot whose references differ from the repository's fetches the
\* reference listing and the ancestry listing once each and returns, and
\* leaves as the facade's snapshot, a new snapshot of the references and
\* revisions the repository lists, not the one it started from.
C25_StaleStartCorrected ==
    StaleStart
        => /\ q.nrefs = 1
           /\ q.nrev = 1
           /\ q.res.tag = "val"
           /\ q.res.val.id > q.start.id
           /\ q.res.val.cache.refs_dict = get_refs(git)
           /\ DOMAIN q.res.val.cache.rev_dict
                  = {git.rev_list[i][1] : i \in DOMAIN git.rev_list}
           /\ q.res.val.cache.youngest_rev = git.rev_list[1][1]
           /\ storages[q.storage].rev_cache = q.res.val

\* such a read, by a facade constructed after the commit
C25_Witness == StaleStart /\ q.storage > 1 /\ q.res.tag = "val"

\* the directory holds HEAD, objects and refs
IsControlDir(dir) == {Join(dir, f) : f \in ControlFiles} \subseteq fs.exists

\* neither the path nor its nested control directory holds all control
\* files, or HEAD of the one that does cannot be opened
Unusable(path) ==
    LET nested == Join(path, ".git")
    IN  \/ ~IsControlDir(path) /\ ~IsControlDir(nested)
        \/ IsControlDir(path) /\ Join(path, "HEAD") \notin fs.readable
        \/ ~IsControlDir(path) /\ Join(nested, "HEAD") \notin fs.readable

\* C29: a request for an unusable path raises GitError, and then no
\* external-tool command has run for it, no snapshot has been built or
\* published for the path, and no facade is recorded for the path or handed
\* to the caller.
C29_UnusablePathRejected ==
    (q.op = "request" /\ Unusable(q.path))
        => /\ q.res = Raise("GitError")
           /\ calls.commands = q.commands
           /\ serial = q.serial
           /\ calls.published[q.path] = NoSnapshot
           /\ q.path \notin DOMAIN dict_rev_cache
           /\ q.path \notin DOMAIN dict_weak
           /\ q.path \notin DOMAIN dict_nonweak
           /\ \A i \in DOMAIN storages : storages[i].path # q.path
           /\ held[q.by] = 0

\* a rejected request for a path that has some control files itself and a
\* complete nested control directory whose HEAD cannot be opened
C29_Witness ==
    /\ q.op = "request"
    /\ q.res = Raise("GitError")
    /\ Join(q.path, "HEAD") \in fs.exists
    /\ ~IsControlDir(q.path)
    /\ IsControlDir(Join(q.path, ".git"))

----------------------------------------------------------------------------
(* The historian scope                                                     *)
(*                                                                         *)
(* One "with get_historian(sha, base_path) as historian" scope.  git.log   *)
(* is what "git log --pretty=format:%n%H --name-status sha -- base_path"   *)
(* lists, newest first: per revision its name and the paths it touched.    *)
(* loc holds the closure variables p, change and next_path and the place   *)
(* where name_status_gen is suspended; pc is "body" inside the with block  *)
(* and "left" after it.                                                    *)

MaxLogLen == 2
MaxTouched == 2
MaxHistorianCalls == 3
\* files the revisions touch, and the paths historian is asked about
Files == {<<"a", "b", "f">>, <<"a", "g">>, <<"d">>}
Asked == Files \cup {<<"a">>, <<"a", "b">>, <<"x">>}

\* the ways the with block is left
Exits == {"return", "raise", "break"}

\* the revision at a place of the log
LogSha(i) == <<"rev", i>>

\* the lists of files one revision can touch
Touched ==
    {ps \in UNION {[1..n -> Files] : n \in 0..MaxTouched} :
        \A i, j \in DOMAIN ps : ps[i] = ps[j] => i = j}

Logs ==
    UNION {{[i \in 1..n |-> [sha |-> LogSha(i), paths |-> f[i]]] :
               f \in [1..n -> Touched]} : n \in 0..MaxLogLen}

BlankLine == [kind |-> "blank"]

\* the lines of one revision: format %n%H gives an empty line and the
\* name, --name-status one "status TAB path" line per path
EntryLines(e) ==
    <<BlankLine, [kind |-> "sha", text |-> e.sha]>>
        \o [i \in DOMAIN e.paths |->
               [kind |-> "status", status |-> "M", path |-> e.paths[i]]]

\* the output of the log command: the revisions' lines, an empty line
\* between two revisions
RECURSIVE LogLines(_)
LogLines(log) ==
    IF log = <<>> THEN <<>>
    ELSE IF Len(log) = 1 THEN EntryLines(log[1])
    ELSE EntryLines(log[1]) \o <<BlankLine>> \o LogLines(Tail(log))

\* a subprocess as log_pipe starts it
Running == [alive |-> TRUE, open |-> TRUE, waited |-> FALSE]

\* a scope that forgets its subprocess
release_not(proc) == proc

\* _close_proc_stdfiles(p[0]); terminate(p[0]); p[0].wait()
release(proc) == [alive |-> FALSE, open |-> FALSE, waited |-> TRUE]

\* a scan that records the listed path only
rsplit_never(path) == Raise("ValueError")

\* path, _ = path.rsplit(b'/', 1)
rsplit(path) ==
    IF Len(path) > 1 THEN Val(SubSeq(path, 1, Len(path) - 1))
    ELSE Raise("ValueError")

\* name_status_gen before its first next()
GenStart == [mode |-> "start", rest |-> <<>>, old_sha |-> <<>>, path |-> <<>>]

\* name_status_gen run from where it is suspended to its next yield, with
\* next_path as given: where it is suspended then, the table, and what it
\* yields.  Modes: "outer" and "inner" are the two loops over the lines,
\* "while" the test of the while loop, "rsplit" the statement after the
\* yield, "drained" the final loop that yields None.
RECURSIVE name_status_gen(_, _, _)
name_status_gen(g, change, next_path) ==
    CASE g.mode = "drained" ->
            [gen |-> g, change |-> change, res |-> NoneR]
      [] g.mode = "failed" ->
            [gen |-> g, change |-> change, res |-> Raise("StopIteration")]
      [] g.mode = "outer" ->
            IF g.rest = <<>>
            THEN [gen |-> [g EXCEPT !.mode = "drained"], change |-> change,
                  res |-> NoneR]
            ELSE LET l == Head(g.rest)
                 IN  IF l.kind = "blank"
                     THEN name_status_gen([g EXCEPT !.rest = Tail(@)],
                                          change, next_path)
                     ELSE name_status_gen(
                              [g EXCEPT !.mode = "inner", !.rest = Tail(@),
                                        !.old_sha = IF l.kind = "sha"
                                                    THEN l.text ELSE l.path],
                              change, next_path)
      [] g.mode = "inner" ->
            IF g.rest = <<>>
            THEN name_status_gen([g EXCEPT !.mode = "outer"], change,
                                 next_path)
            ELSE LET l == Head(g.rest)
                 IN  IF l.kind = "blank"
                     THEN name_status_gen(
                              [g EXCEPT !.mode = "outer", !.rest = Tail(@)],
                              change, next_path)
                     ELSE IF l.kind # "status"
                     THEN [gen |-> [g EXCEPT !.mode = "failed",
                                             !.rest = Tail(@)],
                           change |-> change, res |-> Raise("ValueError")]
                     ELSE name_status_gen(
                              [g EXCEPT !.mode = "while", !.rest = Tail(@),
                                        !.path = l.path],
                              change, next_path)
      [] g.mode = "while" ->
            IF g.path \in DOMAIN change
            THEN name_status_gen([g EXCEPT !.mode = "inner"], change,
                                 next_path)
            ELSE LET recorded == With(change, g.path, g.old_sha)
                     after == [g EXCEPT !.mode = "rsplit"]
                 IN  IF next_path = <<g.path>>
                     THEN [gen |-> after, change |-> recorded,
                           res |-> Val(g.old_sha)]
                     ELSE name_status_gen(after, recorded, next_path)
      [] g.mode = "rsplit" ->
            LET up == rsplit(g.path)
            IN  IF up.tag = "val"
                THEN name_status_gen(
                         [g EXCEPT !.mode = "while", !.path = up.val],
                         change, next_path)
                ELSE name_status_gen([g EXCEPT !.mode = "inner"], change,
                                     next_path)

\* the scope's summary: subprocesses spawned, historian calls made
NoHistorianCalls == [spawned |-> 0, invoked |-> 0]

InitHistorian ==
    /\ git \in {[log |-> l] : l \in Logs}
    /\ rev_cache = Snapshot(0, RevCacheEmpty)
    /\ rev_cache_refresh = TRUE
    /\ rev_cache_lock = 0
    /\ dict_rev_cache = EmptyDict
    /\ dict_lock = 0
    /\ dict_weak = EmptyDict
    /\ dict_nonweak = EmptyDict
    /\ storages = <<>>
    /\ held = <<>>
    /\ fs = NoFiles
    /\ serial = 0
    /\ pc = "body"
    /\ loc = [p |-> <<>>, change |-> EmptyDict, next_path |-> <<>>,
              gen |-> GenStart]
    /\ calls = NoHistorianCalls
    /\ seen = <<>>
    /\ cat_file_pipe = 0
    /\ cat_file_pipe_lock = 0
    /\ procs = <<>>
    /\ commit_msg_cache = SizedDictInit(MsgCacheSize)
    /\ commit_msg_lock = 0
    /\ heap = <<>>
    /\ q = NoQuery

scopeRest == <<rev_cache, rev_cache_refresh, rev_cache_lock, dict_rev_cache,
               dict_lock, regVars, serial, seen, cat_file_pipe,
               cat_file_pipe_lock, msgVars>>

\* historian(path), called in the with block
Historian(path) ==
    /\ pc = "body"
    /\ calls.invoked < MaxHistorianCalls
    /\ IF path \in DOMAIN loc.change
       THEN /\ q' = [op |-> "historian", path |-> path, hit |-> TRUE,
                     read |-> 0, spawned |-> 0,
                     res |-> Val(loc.change[path])]
            /\ calls' = [calls EXCEPT !.invoked = @ + 1]
            /\ UNCHANGED <<loc, procs>>
       ELSE LET first == loc.gen.mode = "start"
                lines == LogLines(git.log)
                from == IF first
                        THEN [loc.gen EXCEPT !.mode = "outer", !.rest = lines]
                        ELSE loc.gen
                p1 == IF first THEN <<Len(procs) + 1>> ELSE loc.p
                procs1 == IF first THEN Append(procs, Running) ELSE procs
                r == name_status_gen(from, loc.change, <<path>>)
                ended == from.mode # "drained" /\ r.gen.mode = "drained"
            IN  /\ loc' = [p |-> IF ended THEN <<>> ELSE p1,
                           change |-> r.change,
                           next_path |-> <<path>>,
                           gen |-> r.gen]
                /\ procs' = IF ended
                            THEN [procs1 EXCEPT ![p1[1]] = release(@)]
                            ELSE procs1
                /\ calls' = [spawned |-> calls.spawned
                                            + (IF first THEN 1 ELSE 0),
                             invoked |-> calls.invoked + 1]
                /\ q' = [op |-> "historian", path |-> path, hit |-> FALSE,
                         read |-> Len(from.rest) - Len(r.gen.rest),
                         spawned |-> IF first THEN 1 ELSE 0,
                         res |-> r.res]
    /\ UNCHANGED <<git, pc, scopeRest>>

\* the with block is left: the finally clause of get_historian
Leave(how) ==
    /\ pc = "body"
    /\ pc' = "left"
    /\ procs' = IF loc.p # <<>>
                THEN [procs EXCEPT ![loc.p[1]] = release(@)]
                ELSE procs
    /\ q' = [op |-> "leave", how |-> how, res |-> NoneR]
    /\ UNCHANGED <<git, loc, calls, scopeRest>>

NextHistorian ==
    \/ \E path \in Asked : Historian(path)
    \/ \E how \in Exits : Leave(how)

SpecHistorian == InitHistorian /\ [][NextHistorian]_vars

\* C26: a scope spawns at most one log subprocess and none before the
\* historian is invoked; once the scope is left, by return, exception or
\* break, the subprocess it spawned has its pipes closed, is terminated
\* and has been waited for.
C26_SubprocessReleased ==
    /\ Len(procs) = calls.spawned
    /\ Len(procs) <= 1
    /\ calls.invoked = 0 => procs = <<>>
    /\ pc = "left"
           => \A i \in DOMAIN procs :
                  /\ ~procs[i].alive
                  /\ ~procs[i].open
                  /\ procs[i].waited

\* the scope is left by an exception while the subprocess still has
\* lines to deliver
C26_Witness ==
    /\ pc = "left"
    /\ q.op = "leave"
    /\ q.how = "raise"
    /\ loc.p # <<>>
    /\ loc.gen.rest # <<>>
    /\ procs = <<release(Running)>>

\* p is path or an ancestor directory of it
IsPrefix(p, path) == Len(p) <= Len(path) /\ SubSeq(path, 1, Len(p)) = p

\* the revision touched path or a path beneath it
Touches(e, path) == \E i \in DOMAIN e.paths : IsPrefix(path, e.paths[i])

\* the first revision of the log that touched path or a path beneath it
FirstTouch(log, path) ==
    LET at == {i \in DOMAIN log : Touches(log[i], path)}
    IN  IF at = {} THEN NoneR
        ELSE Val(log[CHOOSE i \in at : \A j \in at : i <= j].sha)

\* the paths of the status lines the scan has read
Scanned ==
    LET lines == LogLines(git.log)
        n == IF loc.gen.mode = "start" THEN 0
             ELSE Len(lines) - Len(loc.gen.rest)
    IN  {lines[i].path : i \in {j \in 1..n : lines[j].kind = "status"}}

\* C27: historian(path) answers the first revision of the log that
\* touched path or a path beneath it, none if there is none; every path
\* read and every directory containing it is in the table (but for the
\* directories above the path the scan is suspended at), each with that
\* first revision; and an answer from the table reads no line and spawns
\* nothing.
C27_FirstTouchingRevision ==
    /\ q.op = "historian" => q.res = FirstTouch(git.log, q.path)
    /\ \A path \in DOMAIN loc.change :
           Val(loc.change[path]) = FirstTouch(git.log, path)
    /\ \A path \in Scanned : \A n \in 1..Len(path) :
           LET dir == SubSeq(path, 1, n)
           IN  \/ dir \in DOMAIN loc.change
               \/ /\ loc.gen.mode = "rsplit"
                  /\ IsPrefix(dir, loc.gen.path)
                  /\ dir # loc.gen.path
    /\ (q.op = "historian" /\ q.hit) => (q.read = 0 /\ q.spawned = 0)

\* a directory that only the climb from a file recorded is answered from
\* the table while the subprocess still runs
C27_Witness ==
    /\ q.op = "historian"
    /\ q.hit
    /\ q.path = <<"a">>
    /\ q.res.tag = "val"
    /\ loc.p # <<>>
    /\ procs[loc.p[1]].alive

----------------------------------------------------------------------------
(* diff_tree                                                               *)
(*                                                                         *)
(* A byte string is a sequence of tokens: NUL, SP and ":" are the bytes    *)
(* the code looks at, any other token is a run of other bytes.  git holds  *)
(* the changes between the two trees, DiffOutput is what git diff-tree -z  *)
(* prints for them, and one step calls diff_tree and consumes all it       *)
(* yields.                                                                 *)

MaxChanges == 2
NUL == "NUL"
SP == " "
COLON == ":"

\* the paths of the tree, one of them a file whose name begins with ":"
DiffPaths == {<<"file.txt">>, <<"dir/", "a.c">>, <<COLON, "notes.txt">>}

\* a change: the five metadata fields, the old path and, for a rename,
\* the new path
Modified(path) ==
    [mode1 |-> "100644", mode2 |-> "100644", obj1 |-> "aaa", obj2 |-> "bbb",
     action |-> "M", path1 |-> path, two |-> FALSE, path2 |-> <<>>]

Renamed(old, new) ==
    [mode1 |-> "100644", mode2 |-> "100755", obj1 |-> "ccc", obj2 |-> "ccc",
     action |-> "R100", path1 |-> old, two |-> TRUE, path2 |-> new]

Changes ==
    {Modified(path) : path \in DiffPaths}
        \cup {Renamed(old, new) : old \in DiffPaths,
                                  new \in DiffPaths \ {<<"file.txt">>}}

ChangeLists == UNION {[1..n -> Changes] : n \in 0..MaxChanges}

\* :<old-mode> <new-mode> <old-sha> <new-sha> <change> NUL <old-path> NUL
\* [ <new-path> NUL ]
RecordBytes(c) ==
    <<COLON, c.mode1, SP, c.mode2, SP, c.obj1, SP, c.obj2, SP, c.action, NUL>>
        \o c.path1 \o <<NUL>>
        \o (IF c.two THEN c.path2 \o <<NUL>> ELSE <<>>)

RECURSIVE RecordsBytes(_)
RecordsBytes(cs) ==
    IF cs = <<>> THEN <<>> ELSE RecordBytes(Head(cs)) \o RecordsBytes(Tail(cs))

\* what git diff-tree prints: the records, after the tree's own name when
\* one tree only is given and there are changes
DiffOutput(one_tree, cs) ==
    IF one_tree /\ cs # <<>>
    THEN <<"fff", NUL>> \o RecordsBytes(cs)
    ELSE RecordsBytes(cs)

\* bytes.split(sep): the pieces between the separators
RECURSIVE split_at(_, _, _)
split_at(bytes, sep, piece) ==
    IF bytes = <<>> THEN <<piece>>
    ELSE IF Head(bytes) = sep
    THEN <<piece>> \o split_at(Tail(bytes), sep, <<>>)
    ELSE split_at(Tail(bytes), sep, Append(piece, Head(bytes)))

\* bytes.split(): the non-empty pieces between runs of whitespace
words(bytes) == SelectSeq(split_at(bytes, SP, <<>>), LAMBDA w : w # <<>>)

\* line.startswith(b':')
startswith_colon(line) == line # <<>> /\ Head(line) = COLON

\* __chg_tuple(): the seven fields, or the exception
chg_tuple(chg) ==
    IF Len(chg) = 6 THEN Val(Append(chg, NoneR))
    ELSE IF Len(chg) < 7 THEN Raise("IndexError")
    ELSE IF Len(chg) > 7 THEN Raise("AssertionError")
    ELSE Val([chg EXCEPT ![7] = Val(@)])

\* the loop over the lines, chg being <<>> for None: what has been
\* yielded, and the exception that ended the iteration, if any
RECURSIVE scan_lines(_, _, _)
scan_lines(lines, chg, yielded) ==
    IF lines = <<>>
    THEN IF chg = <<>> THEN [yielded |-> yielded, exc |-> "none"]
         ELSE LET t == chg_tuple(chg)
              IN  IF t.tag = "val"
                  THEN [yielded |-> Append(yielded, t.val), exc |-> "none"]
                  ELSE [yielded |-> yielded, exc |-> t.exc]
    ELSE LET line == Head(lines)
         IN  IF startswith_colon(line)
             THEN LET t == IF chg = <<>> THEN NoneR ELSE chg_tuple(chg)
                      out == IF t.tag = "val" THEN Append(yielded, t.val)
                             ELSE yielded
                      fields == words(Tail(line))
                  IN  IF t.tag = "raise"
                      THEN [yielded |-> yielded, exc |-> t.exc]
                      ELSE IF Len(fields) # 5
                      THEN [yielded |-> out, exc |-> "AssertionError"]
                      ELSE scan_lines(Tail(lines), fields, out)
             ELSE IF chg = <<>>
             THEN [yielded |-> yielded, exc |-> "AttributeError"]
             ELSE scan_lines(Tail(lines), Append(chg, line), yielded)

\* list(diff_tree(tree1, tree2)) on the output of the tool
diff_tree(one_tree, output) ==
    LET pieces == split_at(output, NUL, <<>>)
        lines == SubSeq(pieces, 1, Len(pieces) - 1)
    IN  IF pieces[Len(pieces)] # <<>>
        THEN [yielded |-> <<>>, exc |-> "AssertionError"]
        ELSE IF one_tree /\ lines # <<>>
        THEN IF startswith_colon(lines[1])
             THEN [yielded |-> <<>>, exc |-> "AssertionError"]
             ELSE scan_lines(Tail(lines), <<>>, <<>>)
        ELSE scan_lines(lines, <<>>, <<>>)

InitDiff ==
    /\ git \in {[changes |-> cs] : cs \in ChangeLists}
    /\ rev_cache = Snapshot(0, RevCacheEmpty)
    /\ rev_cache_refresh = TRUE
    /\ rev_cache_lock = 0
    /\ dict_rev_cache = EmptyDict
    /\ dict_lock = 0
    /\ dict_weak = EmptyDict
    /\ dict_nonweak = EmptyDict
    /\ storages = <<>>
    /\ held = <<>>
    /\ fs = NoFiles
    /\ serial = 0
    /\ pc = "idle"
    /\ loc = <<>>
    /\ calls = 0
    /\ seen = <<>>
    /\ cat_file_pipe = 0
    /\ cat_file_pipe_lock = 0
    /\ procs = <<>>
    /\ commit_msg_cache = SizedDictInit(MsgCacheSize)
    /\ commit_msg_lock = 0
    /\ heap = <<>>
    /\ q = NoQuery

\* list(diff_tree(tree1, tree2)), tree1 None when one_tree
DiffTree(one_tree) ==
    /\ pc = "idle"
    /\ pc' = "done"
    /\ q' = [op |-> "diff_tree", one_tree |-> one_tree,
             res |-> diff_tree(one_tree, DiffOutput(one_tree, git.changes))]
    /\ UNCHANGED <<git, loc, calls, procs, scopeRest>>

NextDiff == \E one_tree \in BOOLEAN : DiffTree(one_tree)

SpecDiff == InitDiff /\ [][NextDiff]_vars

\* the 7-field record of a change
ChangeRecord(c) ==
    <<<<c.mode1>>, <<c.mode2>>, <<c.obj1>>, <<c.obj2>>, <<c.action>>,
      c.path1, IF c.two THEN Val(c.path2) ELSE NoneR>>

\* C28: diff_tree yields one 7-field record per change of the stream, in
\* stream order: the five metadata fields, the old path and the new path
\* of a rename or none.
C28_OneRecordPerChange ==
    q.op = "diff_tree"
        => /\ q.res.exc = "none"
           /\ q.res.yielded
                  = [i \in DOMAIN git.changes |-> ChangeRecord(git.changes[i])]

----------------------------------------------------------------------------
(* The builder and the RevCache constructor on their own                   *)
(*                                                                         *)
(* One step either runs _build_rev_cache on the listings of a repository   *)
(* or constructs a RevCache from five given fields.  Besides the           *)
(* repositories above there are those whose only reference is a            *)
(* lightweight tag on a blob: show-ref lists the tag, rev-list --all       *)
(* lists no revision.                                                      *)

BlobTagged(detached) ==
    [show_ref |-> <<[rev |-> BlobSha, refname |-> TagV1]>>,
     symbolic_ref |-> IF detached THEN <<>> ELSE Master,
     rev_list |-> <<>>]

BuildRepos == Repos \cup {BlobTagged(d) : d \in BOOLEAN}

\* values for the fields of a RevCache: empty and populated ones
RevArgs == {NoRev, Sha(1, 5, 0)}

RevDictArgs ==
    {EmptyDict,
     [r \in {Sha(1, 5, 0)} |->
         [children |-> {}, parents |-> <<>>, ord |-> 1, rheads |-> {}]]}

RefsDictArgs == {EmptyDict, [n \in {Master} |-> Sha(1, 5, 0)]}

SrevDictArgs ==
    {EmptySrev,
     [kind |-> "dict", map |-> [k \in {1} |-> <<Sha(1, 5, 0)>>], arr |-> <<>>],
     [kind |-> "list", map |-> EmptyDict, arr |-> <<>>],
     [kind |-> "list", map |-> EmptyDict, arr |-> <<<<>>, <<Sha(1, 5, 0)>>>>]}

InitBuild ==
    /\ git \in BuildRepos
    /\ rev_cache = Snapshot(0, RevCacheEmpty)
    /\ rev_cache_refresh = TRUE
    /\ rev_cache_lock = 0
    /\ dict_rev_cache = EmptyDict
    /\ dict_lock = 0
    /\ dict_weak = EmptyDict
    /\ dict_nonweak = EmptyDict
    /\ storages = <<>>
    /\ held = <<>>
    /\ fs = NoFiles
    /\ pc = <<>>
    /\ loc = <<>>
    /\ serial = 0
    /\ calls = <<>>
    /\ seen = <<>>
    /\ cat_file_pipe = 0
    /\ cat_file_pipe_lock = 0
    /\ procs = <<>>
    /\ commit_msg_cache = SizedDictInit(MsgCacheSize)
    /\ commit_msg_lock = 0
    /\ heap = <<>>
    /\ q = NoQuery

\* self._build_rev_cache(self._get_refs())
BuildRevCache ==
    /\ q.op = "none"
    /\ q' = [op |-> "build",
             res |-> build_rev_cache(get_refs(git), git.rev_list)]
    /\ UNCHANGED <<cacheVars, threadVars, pipeVars, msgVars>>

\* RevCache(youngest_rev, oldest_rev, rev_dict, refs_dict, srev_dict)
NewRevCache(youngest_rev, oldest_rev, rev_dict, refs_dict, srev_dict) ==
    /\ q.op = "none"
    /\ q' = [op |-> "RevCache",
             args |-> [youngest_rev |-> youngest_rev, oldest_rev |-> oldest_rev,
                       rev_dict |-> rev_dict, refs_dict |-> refs_dict,
                       srev_dict |-> srev_dict],
             res |-> RevCacheInit(youngest_rev, oldest_rev, rev_dict,
                                  refs_dict, srev_dict)]
    /\ UNCHANGED <<cacheVars, threadVars, pipeVars, msgVars>>

NextBuild ==
    \/ BuildRevCache
    \/ \E y \in RevArgs, o \in RevArgs, rd \in RevDictArgs,
          rf \in RefsDictArgs, sd \in SrevDictArgs :
           NewRevCache(y, o, rd, rf, sd)

SpecBuild == InitBuild /\ [][NextBuild]_vars

\* which of the five fields are empty
EmptyFields(c) ==
    {f \in {"youngest_rev", "oldest_rev", "rev_dict", "refs_dict", "srev_dict"} :
        CASE f = "youngest_rev" -> c.youngest_rev = NoRev
          [] f = "oldest_rev" -> c.oldest_rev = NoRev
          [] f = "rev_dict" -> DOMAIN c.rev_dict = {}
          [] f = "refs_dict" -> DOMAIN c.refs_dict = {}
          [] f = "srev_dict" -> c.srev_dict.map = EmptyDict
                                   /\ c.srev_dict.arr = <<>>}

AllOrNothing(c) == Cardinality(EmptyFields(c)) \in {0, 5}

\* C33: a RevCache is constructed exactly from fields that are all empty
\* or all populated, and then holds them; any other fields raise
\* ValueError; and the snapshot the builder returns is all empty or all
\* populated.
C33_AllOrNothing ==
    /\ q.op = "RevCache"
           => /\ q.res.ok = AllOrNothing(q.args)
              /\ q.res.ok => q.res.cache = q.args
              /\ ~q.res.ok => q.res.exc = "ValueError"
    /\ (q.op = "build" /\ q.res.ok) => AllOrNothing(q.res.cache)

\* the constructor rejected fields of which only refs_dict is empty
C33_Witness ==
    /\ q.op = "RevCache"
    /\ EmptyFields(q.args) = {"refs_dict"}
    /\ q.res.exc = "ValueError"

\* C34: on an ancestry listing without revisions the builder returns the
\* empty snapshot, whatever the references are.
C34_EmptyListingEmptySnapshot ==
    (q.op = "build" /\ git.rev_list = <<>>)
        => /\ q.res.ok
           /\ q.res.cache = RevCacheEmpty

----------------------------------------------------------------------------
(* The four locks                                                          *)
(*                                                                         *)
(* Threads run operations on one shared facade and on the registry.  An    *)
(* operation is the sequence of "with lock" entries and exits its code     *)
(* makes, every external-tool call between them returning or raising; a    *)
(* lock variable holds the thread that is inside, 0 for nobody.  pc[t] is  *)
(* what thread t still has to do.                                          *)

\* number of operations a behaviour starts
MaxLockOps == 3
Acquire(l) == [do |-> "acquire", lock |-> l]

Unlocked(l) == [do |-> "release", lock |-> l]

\* a registry request that reads the new facade's rev_cache inside the
\* registry lock
request_steps_reading ==
    <<Acquire("dict"), Acquire("rev"), Unlocked("rev"), Unlocked("dict")>>

\* StorageFactory.__init__: "with self.__dict_lock"; Storage.__init__
\* enters no lock
request_steps == <<Acquire("dict"), Unlocked("dict")>>

\* rev_cache and sync(): "with self.__rev_cache_lock", and inside it
\* StorageFactory.set_rev_cache, "with cls.__dict_lock", when the snapshot
\* is rebuilt
refresh_steps(rebuilt) ==
    <<Acquire("rev")>>
        \o (IF rebuilt THEN <<Acquire("dict"), Unlocked("dict")>> ELSE <<>>)
        \o <<Unlocked("rev")>>

\* invalidate_rev_cache()
invalidate_steps == <<Acquire("rev"), Unlocked("rev")>>

\* cat_file() and close(): "with self.__cat_file_pipe_lock"
cat_file_steps == <<Acquire("pipe"), Unlocked("pipe")>>

\* read_commit(): fullrev and get_commits read rev_cache, then "with
\* self.__commit_msg_lock", and inside it cat_file on a cache miss
read_commit_steps(rebuilt, again, hit) ==
    refresh_steps(rebuilt) \o refresh_steps(again)
        \o <<Acquire("msg")>>
        \o (IF hit THEN <<>> ELSE cat_file_steps)
        \o <<Unlocked("msg")>>

LockOps ==
    {request_steps, invalidate_steps, cat_file_steps}
        \cup {refresh_steps(b) : b \in BOOLEAN}
        \cup {read_commit_steps(b, c, h) : b \in BOOLEAN, c \in BOOLEAN,
                                           h \in BOOLEAN}

InitLocks ==
    /\ git = GitAt(1)
    /\ rev_cache = Snapshot(0, RevCacheEmpty)
    /\ rev_cache_refresh = TRUE
    /\ rev_cache_lock = 0
    /\ dict_rev_cache = EmptyDict
    /\ dict_lock = 0
    /\ dict_weak = EmptyDict
    /\ dict_nonweak = EmptyDict
    /\ storages = <<>>
    /\ held = <<>>
    /\ fs = NoFiles
    /\ pc = [t \in Threads |-> <<>>]
    /\ loc = <<>>
    /\ serial = 0
    /\ calls = 0
    /\ seen = <<>>
    /\ cat_file_pipe = 0
    /\ cat_file_pipe_lock = 0
    /\ procs = <<>>
    /\ commit_msg_cache = SizedDictInit(MsgCacheSize)
    /\ commit_msg_lock = 0
    /\ heap = <<>>
    /\ q = NoQuery

lockRest == <<git, rev_cache, rev_cache_refresh, dict_rev_cache, regVars,
              serial, loc, seen, cat_file_pipe, procs, commit_msg_cache,
              heap, q>>

\* who is inside the lock
Holder(l) ==
    CASE l = "rev" -> rev_cache_lock
      [] l = "dict" -> dict_lock
      [] l = "msg" -> commit_msg_lock
      [] l = "pipe" -> cat_file_pipe_lock

\* the locks after h enters (or, with h = 0, leaves) lock l
SetHolder(l, h) ==
    /\ rev_cache_lock' = IF l = "rev" THEN h ELSE rev_cache_lock
    /\ dict_lock' = IF l = "dict" THEN h ELSE dict_lock
    /\ commit_msg_lock' = IF l = "msg" THEN h ELSE commit_msg_lock
    /\ cat_file_pipe_lock' = IF l = "pipe" THEN h ELSE cat_file_pipe_lock

\* a thread calls an operation
StartOp(t, steps) ==
    /\ pc[t] = <<>>
    /\ calls < MaxLockOps
    /\ pc' = [pc EXCEPT ![t] = steps]
    /\ calls' = calls + 1
    /\ UNCHANGED <<rev_cache_lock, dict_lock, commit_msg_lock,
                   cat_file_pipe_lock, lockRest>>

\* the thread's next "with": Lock.acquire() blocks while anybody, the
\* thread itself included, is inside; leaving releases
LockStep(t) ==
    /\ pc[t] # <<>>
    /\ LET step == Head(pc[t])
       IN  IF step.do = "acquire"
           THEN /\ Holder(step.lock) = 0
                /\ SetHolder(step.lock, t)
           ELSE SetHolder(step.lock, 0)
    /\ pc' = [pc EXCEPT ![t] = Tail(@)]
    /\ UNCHANGED <<calls, lockRest>>

NextLocks ==
    \/ \E t \in Threads, steps \in LockOps : StartOp(t, steps)
    \/ \E t \in Threads : LockStep(t)

SpecLocks == InitLocks /\ [][NextLocks]_vars

\* a thread that can take its next step takes it
SpecLocksFair == SpecLocks /\ \A t \in Threads : WF_vars(LockStep(t))

\* C35: every operation a thread started completes.
C35_OperationsComplete == \A t \in Threads : (pc[t] # <<>>) ~> (pc[t] = <<>>)

\* a thread inside the revision-cache lock waits for the registry lock,
\* which another thread is inside
C35_Witness ==
    \E t \in Threads :
        /\ rev_cache_lock = t
        /\ Head(pc[t]) = Acquire("dict")
        /\ dict_lock \notin {0, t}

----------------------------------------------------------------------------
(* Refresh attempts that raise                                             *)
(*                                                                         *)
(* One facade, one caller.  A call runs under the revision-cache lock      *)
(* from start to end, so it is one step.  The external tool can fail a     *)
(* call while the reference listing is fetched (Popen raises OSError) or   *)
(* while the snapshot is rebuilt.                                          *)

\* number of calls a behaviour makes
MaxRefreshCalls == 4
\* where a call fails
Failures == {"none", "refs", "build"}

InitRefresh ==
    /\ git = GitAt(1)
    /\ rev_cache = Snapshot(0, RevCacheEmpty)
    /\ rev_cache_refresh = RefreshAtInit(NoSnapshot)
    /\ rev_cache_lock = 0
    /\ dict_rev_cache = EmptyDict
    /\ dict_lock = 0
    /\ dict_weak = EmptyDict
    /\ dict_nonweak = EmptyDict
    /\ storages = <<>>
    /\ held = <<>>
    /\ fs = NoFiles
    /\ pc = <<>>
    /\ loc = <<>>
    /\ serial = 0
    /\ calls = 0
    /\ seen = <<>>
    /\ cat_file_pipe = 0
    /\ cat_file_pipe_lock = 0
    /\ procs = <<>>
    /\ commit_msg_cache = SizedDictInit(MsgCacheSize)
    /\ commit_msg_lock = 0
    /\ heap = <<>>
    /\ q = NoQuery

refreshRest == <<rev_cache_lock, dict_lock, regVars, pc, loc, seen, pipeVars,
                 msgVars>>

\* rev_cache (force = FALSE) or sync() (force = TRUE), failing at fail
RefreshCall(force, fail) ==
    /\ calls < MaxRefreshCalls
    /\ LET check == force \/ rev_cache_refresh
           refs == get_refs(git)
           changed == check /\ fail # "refs"
                         /\ RefsChanged(rev_cache.cache, refs)
           b == build_rev_cache(refs, git.rev_list)
           built == Snapshot(serial + 1, b.cache)
           raised == IF fail = "refs" THEN "OSError"
                     ELSE IF fail = "build" THEN "OSError"
                     ELSE IF changed /\ ~b.ok THEN b.exc
                     ELSE ""
           about == [op |-> IF force THEN "sync" ELSE "rev_cache",
                     fail |-> fail, checked |-> check,
                     before |-> rev_cache, slot |-> dict_rev_cache,
                     res |-> NoneR]
       IN  /\ fail = "refs" => check
           /\ fail = "build" => changed
           /\ rev_cache_refresh' = IF check THEN FlagAfterCheck
                                   ELSE rev_cache_refresh
           /\ IF raised # ""
              THEN /\ q' = [about EXCEPT !.res = Raise(raised)]
                   /\ UNCHANGED <<rev_cache, dict_rev_cache, serial>>
              ELSE /\ rev_cache' = IF changed THEN built ELSE rev_cache
                   /\ dict_rev_cache' =
                          IF changed
                          THEN With(dict_rev_cache, <<"repo">>, built)
                          ELSE dict_rev_cache
                   /\ serial' = IF changed THEN serial + 1 ELSE serial
                   /\ q' = [about EXCEPT
                               !.res = IF force THEN Val(changed)
                                       ELSE Val(rev_cache')]
    /\ calls' = calls + 1
    /\ UNCHANGED <<git, refreshRest>>

\* invalidate_rev_cache()
InvalidateCall ==
    /\ calls < MaxRefreshCalls
    /\ rev_cache_refresh' = TRUE
    /\ calls' = calls + 1
    /\ q' = [NoQuery EXCEPT !.op = "invalidate_rev_cache"]
    /\ UNCHANGED <<git, rev_cache, dict_rev_cache, serial, refreshRest>>

\* a commit lands on master
CommitLands ==
    /\ GitVer(git) < MaxVer
    /\ git' = GitAt(GitVer(git) + 1)
    /\ q' = NoQuery
    /\ UNCHANGED <<rev_cache, rev_cache_refresh, dict_rev_cache, serial, calls,
                   refreshRest>>

NextRefresh ==
    \/ \E force \in BOOLEAN, fail \in Failures : RefreshCall(force, fail)
    \/ InvalidateCall
    \/ CommitLands

SpecRefresh == InitRefresh /\ [][NextRefresh]_vars

\* C36: after a rev_cache read or sync that raised, the facade's snapshot
\* and the registry slot are what they were before it and the facade is
\* still marked as needing refresh.
C36_FailedRefreshStaysPending ==
    (q.op \in {"rev_cache", "sync"} /\ q.res.tag = "raise")
        => /\ rev_cache = q.before
           /\ dict_rev_cache = q.slot
           /\ rev_cache_refresh = TRUE

----------------------------------------------------------------------------
(* The WSGI gateway (trac/web/wsgi.py)                                     *)
(*                                                                         *)
(* One WSGIServerGateway.run(application).  loc is the gateway object,     *)
(* heap the handler's wfile: whether it is closed and what has been sent   *)
(* through it, the status line with the headers as one item and every      *)
(* wfile.write as one item.  pc is where run is: "app" inside the call     *)
(* application(environ, start_response), "iter" iterating over the         *)
(* response, "done" after run returned, "raised" after an exception left   *)
(* run from inside the try block, "failed" after one left it before.       *)
(* The application calls start_response and the write callable and yields  *)
(* chunks as it likes.  A byte string is a sequence of one-byte strings.   *)

\* number of things the application does in a behaviour
MaxAppEvents == 3
CR == "\\r"
LF == "\\n"
CRLF == <<CR, LF>>

\* payloads of 0, 10 and 17 bytes
PayloadSizes == {0, 10, 17}
Payload(n) == [i \in 1..n |-> "x"]

HexDigit(d) == <<"0", "1", "2", "3", "4", "5", "6", "7", "8", "9",
                 "a", "b", "c", "d", "e", "f">>[d + 1]

\* the hexadecimal digits of n
RECURSIVE HexDigits(_)
HexDigits(n) ==
    IF n < 16 THEN <<HexDigit(n)>>
    ELSE Append(HexDigits(n \div 16), HexDigit(n % 16))

\* a chunk size written as '%x' % n would write it
py_hex_bare(n) == HexDigits(n)

\* hex(n).encode('ascii'): Python's hex() gives the digits after "0x"
py_hex(n) == <<"0", "x">> \o HexDigits(n)

\* str.lower() on the header names of the model
lower(name) ==
    CASE name = "Content-Length" -> "content-length"
      [] name = "Content-Type" -> "content-type"
      [] OTHER -> name

ContentType == <<"Content-Type", "text/html">>

\* the header lists the application passes
HeaderLists ==
    {<<ContentType>>,
     <<ContentType, <<"Content-Length", "17">>>>,
     <<ContentType, <<"content-length", "17">>>>}

\* request and handler protocol versions, in the order of Python's string
\* comparison
Protocols == <<"HTTP/0.9", "HTTP/1.0", "HTTP/1.1">>

ProtocolRank(v) == CHOOSE i \in DOMAIN Protocols : Protocols[i] = v

\* v >= 'HTTP/1.1'
AtLeast11(v) == ProtocolRank(v) >= ProtocolRank("HTTP/1.1")

\* how the socket treats one _write: all goes through, the client has
\* gone (EPIPE at the first thing sent), or another IOError hits the
\* body write
Outcomes == {"ok", "epipe", "eio"}

\* a gateway that sends the headers on every write
HeadersPending_always(gw) == TRUE

\* not self.headers_sent
HeadersPending(gw) == gw.headers_sent = <<>>

\* any(n.lower() == 'content-length' for n, v in headers)
has_content_length(headers) ==
    \E i \in DOMAIN headers : lower(headers[i][1]) = "content-length"

\* WSGIServerGateway._write(data): the gateway and the wfile after it and
\* the exception it raises, "" for none
write(gw, wfile, data, outcome) ==
    IF gw.headers_set = <<>>
    THEN [gw |-> gw, wfile |-> wfile, exc |-> "AssertionError"]
    ELSE IF wfile.closed
    THEN [gw |-> gw, wfile |-> wfile, exc |-> ""]
    ELSE LET first == HeadersPending(gw)
             status == gw.headers_set[1]
             headers == gw.headers_set[2]
             chunked == IF ~first THEN gw.use_chunked
                        ELSE IF has_content_length(headers) THEN FALSE
                        ELSE AtLeast11(gw.server_protocol)
                                 /\ AtLeast11(gw.protocol_version)
             sent == IF ~first \/ has_content_length(headers) THEN headers
                     ELSE IF chunked
                     THEN Append(headers, <<"Transfer-Encoding", "chunked">>)
                     ELSE Append(headers, <<"Connection", "close">>)
             gw1 == IF first
                    THEN [gw EXCEPT !.headers_set = <<status, sent>>,
                                    !.headers_sent = <<status, sent>>,
                                    !.use_chunked = chunked]
                    ELSE gw
             head == IF first
                     THEN <<[kind |-> "head", status |-> status,
                             headers |-> sent]>>
                     ELSE <<>>
             body == [kind |-> "body",
                      bytes |-> IF chunked
                                THEN py_hex(Len(data)) \o CRLF \o data \o CRLF
                                ELSE data]
         IN  CASE outcome = "ok" ->
                    [gw |-> gw1, exc |-> "",
                     wfile |-> [wfile EXCEPT !.out = @ \o head \o <<body>>]]
               [] outcome = "epipe" ->
                    [gw |-> [gw1 EXCEPT !.close_connection = TRUE],
                     exc |-> "", wfile |-> wfile]
               [] outcome = "eio" ->
                    [gw |-> gw1, exc |-> "IOError",
                     wfile |-> [wfile EXCEPT !.out = @ \o head]]

\* what run has seen and done: the chunks yielded, the data of its own
\* _write calls, the response.close() calls, and whether a start_response
\* call has returned the write callable
NoWsgiCalls == [events |-> 0, yielded |-> <<>>, written |-> <<>>, closes |-> 0,
                callable |-> FALSE]

InitWsgi ==
    /\ git = GitAt(1)
    /\ rev_cache = Snapshot(0, RevCacheEmpty)
    /\ rev_cache_refresh = TRUE
    /\ rev_cache_lock = 0
    /\ dict_rev_cache = EmptyDict
    /\ dict_lock = 0
    /\ dict_weak = EmptyDict
    /\ dict_nonweak = EmptyDict
    /\ storages = <<>>
    /\ held = <<>>
    /\ fs = NoFiles
    /\ pc = "app"
    /\ loc \in {[headers_set |-> <<>>, headers_sent |-> <<>>,
                  use_chunked |-> FALSE, close_connection |-> FALSE,
                  server_protocol |-> sp, protocol_version |-> pv] :
                    sp \in Range(Protocols),
                    pv \in {"HTTP/1.0", "HTTP/1.1"}}
    /\ serial = 0
    /\ calls = NoWsgiCalls
    /\ seen = <<>>
    /\ cat_file_pipe = 0
    /\ cat_file_pipe_lock = 0
    /\ procs = <<>>
    /\ commit_msg_cache = SizedDictInit(MsgCacheSize)
    /\ commit_msg_lock = 0
    /\ heap \in {[closed |-> c, out |-> <<>>] : c \in BOOLEAN}
    /\ q = NoQuery

wsgiRest == <<cacheVars, seen, cat_file_pipe, cat_file_pipe_lock, procs,
              commit_msg_cache, commit_msg_lock>>

InApp == pc \in {"app", "iter"} /\ calls.events < MaxAppEvents

\* an exception leaves run: from inside the try block through the finally
\* clause, which closes the response
Leaving(c) ==
    IF pc = "iter"
    THEN /\ pc' = "raised"
         /\ calls' = [c EXCEPT !.closes = @ + 1]
    ELSE /\ pc' = "failed"
         /\ calls' = c

\* the application calls start_response(status, headers, exc_info)
StartResponse(headers, exc_info) ==
    /\ InApp
    /\ LET c == [calls EXCEPT !.events = @ + 1]
           about == [op |-> "start_response", exc_info |-> exc_info,
                     set |-> loc.headers_set, sent |-> loc.headers_sent,
                     res |-> NoneR]
           exc == IF exc_info
                  THEN (IF loc.headers_sent # <<>> THEN "reraised" ELSE "")
                  ELSE (IF loc.headers_set # <<>> THEN "AssertionError" ELSE "")
       IN  IF exc # ""
           THEN /\ Leaving(c)
                /\ q' = [about EXCEPT !.res = Raise(exc)]
                /\ UNCHANGED loc
           ELSE /\ loc' = [loc EXCEPT !.headers_set = <<"200 OK", headers>>]
                /\ calls' = [c EXCEPT !.callable = TRUE]
                /\ q' = about
                /\ pc' = pc
    /\ UNCHANGED <<heap, wsgiRest>>

\* the application calls the callable start_response returned
AppWrite(n, outcome) ==
    /\ InApp
    /\ calls.callable
    /\ LET c == [calls EXCEPT !.events = @ + 1]
           w == write(loc, heap, Payload(n), outcome)
       IN  /\ loc' = w.gw
           /\ heap' = w.wfile
           /\ q' = [op |-> "write", data |-> Payload(n), by |-> "app",
                    set |-> loc.headers_set, sent |-> loc.headers_sent,
                    outlen |-> Len(heap.out),
                    res |-> IF w.exc = "" THEN NoneR ELSE Raise(w.exc)]
           /\ IF w.exc # "" THEN Leaving(c)
              ELSE pc' = pc /\ calls' = c
    /\ UNCHANGED wsgiRest

\* application(environ, start_response) returns the response
AppReturns ==
    /\ pc = "app"
    /\ pc' = "iter"
    /\ q' = [NoQuery EXCEPT !.op = "returns"]
    /\ UNCHANGED <<loc, heap, calls, wsgiRest>>

\* a run that writes every chunk
ChunkWritten_always(chunk) == TRUE

\* "if chunk:"
ChunkWritten(chunk) == chunk # <<>>

\* "for chunk in response": the response yields a chunk
Yield(n, outcome) ==
    /\ pc = "iter"
    /\ calls.events < MaxAppEvents
    /\ LET chunk == Payload(n)
           c == [calls EXCEPT !.events = @ + 1,
                              !.yielded = Append(@, chunk)]
       IN  IF ChunkWritten(chunk)
           THEN LET w == write(loc, heap, chunk, outcome)
                    c1 == [c EXCEPT !.written = Append(@, chunk)]
                IN  /\ loc' = w.gw
                    /\ heap' = w.wfile
                    /\ q' = [op |-> "write", data |-> chunk, by |-> "run",
                             set |-> loc.headers_set,
                             sent |-> loc.headers_sent,
                             outlen |-> Len(heap.out),
                             res |-> IF w.exc = "" THEN NoneR
                                     ELSE Raise(w.exc)]
                    /\ IF w.exc # "" THEN Leaving(c1)
                       ELSE pc' = pc /\ calls' = c1
           ELSE /\ calls' = c
                /\ q' = [NoQuery EXCEPT !.op = "skipped"]
                /\ UNCHANGED <<pc, loc, heap>>
    /\ UNCHANGED wsgiRest

\* the response is exhausted: the final write, then the finally clause
Exhausted(outcome) ==
    /\ pc = "iter"
    /\ LET due == loc.headers_sent = <<>> \/ loc.use_chunked
           w == IF due THEN write(loc, heap, <<>>, outcome)
                ELSE [gw |-> loc, wfile |-> heap, exc |-> ""]
       IN  /\ loc' = w.gw
           /\ heap' = w.wfile
           /\ calls' = [calls EXCEPT !.closes = @ + 1,
                                     !.written = IF due THEN Append(@, <<>>)
                                                 ELSE @]
           /\ pc' = IF w.exc = "" THEN "done" ELSE "raised"
           /\ q' = [op |-> "exhausted", due |-> due,
                    set |-> loc.headers_set, sent |-> loc.headers_sent,
                    outlen |-> Len(heap.out),
                    chunked |-> loc.use_chunked,
                    res |-> IF w.exc = "" THEN NoneR ELSE Raise(w.exc)]
    /\ UNCHANGED wsgiRest

\* the application raises, in the call or while it is iterated over
AppRaises ==
    /\ InApp
    /\ Leaving([calls EXCEPT !.events = @ + 1])
    /\ q' = [NoQuery EXCEPT !.op = "raises"]
    /\ UNCHANGED <<loc, heap, wsgiRest>>

NextWsgi ==
    \/ \E headers \in HeaderLists, exc_info \in BOOLEAN :
           StartResponse(headers, exc_info)
    \/ \E n \in PayloadSizes, outcome \in Outcomes : AppWrite(n, outcome)
    \/ AppReturns
    \/ \E n \in PayloadSizes, outcome \in Outcomes : Yield(n, outcome)
    \/ \E outcome \in Outcomes : Exhausted(outcome)
    \/ AppRaises

SpecWsgi == InitWsgi /\ [][NextWsgi]_vars

\* the places of the status line and headers in what was sent
Heads == {i \in DOMAIN heap.out : heap.out[i].kind = "head"}

\* C37: the status line and headers are sent at most once and before any
\* body data, and they are the headers the gateway holds as sent; a write
\* before any start_response raises AssertionError and sends nothing; a
\* second start_response without exc_info raises AssertionError; and a
\* start_response with exc_info after the headers were sent re-raises and
\* leaves the headers as they were.
C37_HeadersOnceAndFirst ==
    /\ Heads \subseteq {1}
    /\ Heads # {} => loc.headers_sent = <<heap.out[1].status, heap.out[1].headers>>
    /\ (q.op = "write" /\ q.set = <<>>)
           => q.res = Raise("AssertionError") /\ heap.out = <<>>
    /\ (q.op = "start_response" /\ ~q.exc_info /\ q.set # <<>>)
           => q.res = Raise("AssertionError") /\ loc.headers_set = q.set
    /\ (q.op = "start_response" /\ q.exc_info /\ q.sent # <<>>)
           => /\ q.res = Raise("reraised")
              /\ loc.headers_set = q.set
              /\ loc.headers_sent = q.sent

\* start_response with exc_info is called after headers and a body item
\* went out
C37_Witness ==
    /\ q.op = "start_response"
    /\ q.exc_info
    /\ q.res = Raise("reraised")
    /\ Len(heap.out) = 2
    /\ Heads = {1}

\* the non-empty chunks, in order
NonEmptyOf(chunks) == SelectSeq(chunks, LAMBDA c : c # <<>>)

\* C38: run passes the non-empty chunks the response yielded to _write in
\* order and no empty one; when the response is exhausted it makes one
\* more _write, of the empty string, exactly if the headers were not sent
\* or chunked encoding is in use, so that with chunked encoding the empty
\* write is the last and the only one; and response.close() has been
\* called once when run is left from the try block, by return or by an
\* exception, and not before.
C38_RunWritesAndCloses ==
    /\ pc \in {"app", "failed"}
           => calls.written = <<>> /\ calls.closes = 0
    /\ pc = "iter"
           => calls.written = NonEmptyOf(calls.yielded) /\ calls.closes = 0
    /\ pc \in {"done", "raised"} => calls.closes = 1
    /\ q.op = "exhausted"
           => calls.written
                  = NonEmptyOf(calls.yielded)
                        \o (IF q.sent = <<>> \/ q.chunked THEN <<<<>>>> ELSE <<>>)
    /\ (pc = "raised" /\ q.op # "exhausted")
           => calls.written = NonEmptyOf(calls.yielded)
    /\ pc = "done" => q.op = "exhausted"
    /\ (pc = "done" /\ loc.use_chunked)
           => {i \in DOMAIN calls.written : calls.written[i] = <<>>}
                  = {Len(calls.written)}

\* run returned in chunked mode after the response yielded an empty and a
\* non-empty chunk
C38_Witness ==
    /\ pc = "done"
    /\ loc.use_chunked
    /\ Len(calls.yielded) = 2
    /\ Len(calls.written) = 2
    /\ \E i \in DOMAIN calls.yielded : calls.yielded[i] = <<>>

\* the chunk of a payload: size in hexadecimal digits, CRLF, payload, CRLF
ChunkOf(data) == py_hex_bare(Len(data)) \o CRLF \o data \o CRLF

\* the last call of _write put a body item on the wire in chunked mode
BodySent ==
    /\ loc.use_chunked
    /\ Len(heap.out) > q.outlen
    /\ heap.out[Len(heap.out)].kind = "body"

\* C39: with chunked encoding every write puts the chunk of its payload
\* on the wire, "0" CRLF CRLF for the empty write; chunked encoding is in
\* use exactly when the application gave no Content-Length header and the
\* request and the handler protocol are both at least HTTP/1.1, and
\* otherwise the headers sent end with Connection: close.
C39_ChunkFraming ==
    /\ (q.op = "write" /\ BodySent)
           => heap.out[Len(heap.out)].bytes = ChunkOf(q.data)
    /\ (q.op = "exhausted" /\ BodySent)
           => heap.out[Len(heap.out)].bytes = <<"0">> \o CRLF \o CRLF
    /\ loc.headers_sent # <<>>
           => LET headers == loc.headers_sent[2]
              IN  /\ loc.use_chunked
                         = (/\ ~has_content_length(headers)
                            /\ loc.server_protocol = "HTTP/1.1"
                            /\ loc.protocol_version = "HTTP/1.1")
                  /\ ~loc.use_chunked
                         => headers[Len(headers)] = <<"Connection", "close">>
====
